---- MODULE Spec2Model ----
(***************************************************************************)
(* CPUNK DHT monitor: the capture loop (dht_capture.py), the in-memory     *)
(* metrics store (dht_metrics.py) and the SQLite persistence shim          *)
(* (dht_db.py), with the reporting readers that run concurrently with the  *)
(* capture thread.                                                         *)
(*                                                                         *)
(* Numbers.  Times are whole seconds.  A peer score is kept exactly, as an *)
(* integer count of 1/ScoreUnit, so 1.0 is ScoreUnit and the default       *)
(* min_score 0.2 is ScoreUnit \div 5.  The thresholds of NodeTracker and   *)
(* the caps MAX_POINTS, TOP_TALKERS, DB_MAX_ROWS keep their roles and are  *)
(* scaled down so that every gate is crossed within a few windows.         *)
(***************************************************************************)
EXTENDS Integers, Sequences, FiniteSets, TLC

(* ------------------------------------------------------------------ *)
(* Program constants (scaled)                                          *)
(* ------------------------------------------------------------------ *)
MAX_POINTS == 2
TOP_TALKERS == 2
DB_MAX_ROWS == 2
INTERVAL_SECONDS == 2
MIN_WINDOWS == 2
MIN_LIFETIME_SEC == 1
MIN_BYTES == 2
MIN_PACKETS == 2
CANDIDATE_LIMIT == 2

(* ------------------------------------------------------------------ *)
(* Bounds of the model                                                 *)
(* ------------------------------------------------------------------ *)
MaxWindows == 2
MaxStoreWindows == 3
MaxDbWindows == 3
MaxRestartWindows == 4
MaxLines == 1
MaxInitRows == 4
MaxRestarts == 1
MaxFlowWindows == 2
MaxFlowLines == 2
MaxTrackerUpdates == 3
MaxTrackerTime == 2
MaxAliasWindows == 2
MaxRawLines == 3
MaxThreads == 2
MaxThreadWindows == 1
(* SpecTalkers: windows captured, lines of one capture *)
MaxTalkerWindows == 1
MaxTalkerLines == 3

(* ------------------------------------------------------------------ *)
(* Addresses                                                           *)
(* ------------------------------------------------------------------ *)
LocalIp == "10.0.0.1"
RemoteA == "1.2.3.4"
RemoteB == "5.6.7.8"
(* what get_local_ipv4_addresses returns on the monitored host *)
HostIps == {LocalIp}
RemoteIps == {RemoteA, RemoteB}
Ips == HostIps \cup RemoteIps

None == "None"

(* ------------------------------------------------------------------ *)
(* Sequence helpers                                                    *)
(* ------------------------------------------------------------------ *)
Min(a, b) == IF a < b THEN a ELSE b
Max(a, b) == IF a > b THEN a ELSE b
Range(s) == {s[i] : i \in 1..Len(s)}
Take(s, n) == SubSeq(s, 1, Min(n, Len(s)))
LastN(s, n) == SubSeq(s, Max(1, Len(s) - n + 1), Len(s))
SeqsUpTo(S, n) == UNION {[1..k -> S] : k \in 0..n}

RECURSIVE SumSeq(_)
SumSeq(s) == IF s = <<>> THEN 0 ELSE Head(s) + SumSeq(Tail(s))

RECURSIVE Perms(_)
Perms(S) ==
    IF S = {} THEN {<<>>}
    ELSE UNION {{<<x>> \o p : p \in Perms(S \ {x})} : x \in S}

(* s contains sub as a contiguous substring *)
Contains(s, sub) ==
    \E i \in 1..(Len(s) - Len(sub) + 1) : SubSeq(s, i, i + Len(sub) - 1) = sub

(* ------------------------------------------------------------------ *)
(* hashlib.sha256(ip.encode("utf-8")).hexdigest() on the addresses     *)
(* ------------------------------------------------------------------ *)
Sha256Hex(ip) ==
    CASE ip = "10.0.0.1" -> "f5047344122f0dee9974ba6761e61c6b8649e1f3968d13a635ebbf7be53a3a0d"
      [] ip = "1.2.3.4"  -> "6694f83c9f476da31f5df6bcc520034e7e57d421d247b9d34f49edbfc84a764c"
      [] ip = "5.6.7.8"  -> "0a29e59e77d5d5075f338cd08811a0cd30ecedba78792f1dbd47dcb267ced630"

VARIABLES
    metrics_history,         \* deque(maxlen=MAX_POINTS) of window records
    latest_top_peers,        \* top_peers of the last appended window
    latest_node_candidates,  \* node_candidates of the last appended window
    metrics_lock,            \* None or the thread holding it
    db_conn,                 \* TRUE once init_db connected, FALSE for None
    db_rows,                 \* rows of dht_metrics, ascending id
    db_seq,                  \* AUTOINCREMENT: largest id ever given
    db_lock,                 \* None or the thread holding it
    db_durable,              \* the rows and the AUTOINCREMENT value as last committed
    LOCAL_IPS,               \* addresses of the host's interfaces, read at import
    db_stats_pc, db_stats,         \* a get_db_stats caller
    capture_threads,         \* locals of the capture_loop threads started after the first
    result,                  \* run_capture local: what subprocess.run did; None before the call
    PREVIOUS_PEERS,          \* source IPs of the previous window
    peers,                   \* NODE_TRACKER._peers in insertion order
    instance,                \* which process run this is (restarts count up)
    clock,                   \* the host clock, seconds
    pc,                      \* position of capture_loop
    window_start,            \* capture_loop local
    window,                  \* capture_loop local: the record being pushed
    cycles,                  \* capture windows started in this model run
    appended,                \* history: every window add_window appended
    observed,                \* history: the packets run_capture returned, per cycle
    emitted,                 \* history: (ip, id, ip_hash, instance) emitted
    snap_pc, snap,           \* a get_metrics_snapshot caller
    health_pc, health,       \* a get_health_info caller
    capture_failed,          \* history: run_capture caught an exception this cycle
    db_failed                \* history: <<ts>> of the window whose save raised, or <<>>

vars == <<metrics_history, latest_top_peers, latest_node_candidates, metrics_lock,
          db_conn, db_rows, db_seq, db_lock, db_durable, LOCAL_IPS, db_stats_pc, db_stats, result,
          capture_threads, PREVIOUS_PEERS, peers,
          instance, clock, pc, window_start, window, cycles, appended, observed, emitted,
          snap_pc, snap, health_pc, health, capture_failed, db_failed>>

(* ------------------------------------------------------------------ *)
(* run_capture: the tshark subprocess and the parse of its stdout      *)
(* ------------------------------------------------------------------ *)
(* a stdout line: "src dst len" (kind "pkt"), or one the parser skips:  *)
(* blank line, "Running as user"/"Capturing on" banner or "packets     *)
(* captured" line, fewer than three fields, length field not an int    *)
Pkt(src, dst, len) == [kind |-> "pkt", src |-> src, dst |-> dst, len |-> len]
NoiseKinds == {"blank", "banner", "short", "badlen"}
NoiseLines == [kind : NoiseKinds, src : {RemoteA}, dst : {LocalIp}, len : {1}]
ReturnCodes == {0, 1}

(* what subprocess.run did: raised, or returned returncode and stdout *)
CaptureOutcomes(lines) ==
    [raised : {TRUE}, returncode : {0}, lines : {<<>>}]
      \cup [raised : {FALSE}, returncode : ReturnCodes, lines : lines]

(* a parse that gives up at the first line it cannot use *)
RECURSIVE ParseLinesAborting(_)
ParseLinesAborting(lines) ==
    IF lines = <<>> THEN <<>>
    ELSE LET l == Head(lines) IN
         IF l.kind = "pkt"
         THEN <<[src |-> l.src, dst |-> l.dst, len |-> l.len]>> \o ParseLinesAborting(Tail(lines))
         ELSE <<>>

(* the body of "for raw in stdout_lines": a line of kind "pkt" is       *)
(* appended as (src_ip, dst_ip, length), any other is left by continue *)
RECURSIVE ParseLines(_)
ParseLines(lines) ==
    IF lines = <<>> THEN <<>>
    ELSE LET l == Head(lines) IN
         IF l.kind = "pkt"
         THEN <<[src |-> l.src, dst |-> l.dst, len |-> l.len]>> \o ParseLines(Tail(lines))
         ELSE ParseLines(Tail(lines))

(* run_capture without its "except Exception: return []" *)
run_capture_unhandled(outcome) ==
    IF outcome.raised
    THEN [escaped |-> TRUE, packets |-> <<>>]
    ELSE [escaped |-> FALSE, packets |-> ParseLines(outcome.lines)]

(* the result of run_capture: escaped is TRUE when an exception leaves  *)
(* it; "except Exception: return []" lets none leave                   *)
run_capture(outcome) ==
    IF outcome.raised
    THEN [escaped |-> FALSE, packets |-> <<>>]
    ELSE [escaped |-> FALSE, packets |-> ParseLines(outcome.lines)]

(* ------------------------------------------------------------------ *)
(* capture_loop: per-window aggregation                                *)
(* ------------------------------------------------------------------ *)
IsOut(p) == p.src \in LOCAL_IPS
(* "if dst_ip in LOCAL_IPS" in place of "elif" *)
IsInWithoutElif(p) == p.dst \in LOCAL_IPS
IsIn(p) == p.src \notin LOCAL_IPS /\ p.dst \in LOCAL_IPS

RECURSIVE SumLen(_)
SumLen(ps) == IF ps = <<>> THEN 0 ELSE Head(ps).len + SumLen(Tail(ps))

OutPkts(ps) == SelectSeq(ps, IsOut)
InPkts(ps) == SelectSeq(ps, IsIn)

(* distinct values of a sequence in order of first appearance: the key *)
(* order of a dict filled in that order                                *)
RECURSIVE FirstSeenOrder(_)
FirstSeenOrder(s) ==
    IF s = <<>> THEN <<>>
    ELSE LET front == FirstSeenOrder(SubSeq(s, 1, Len(s) - 1))
             x == s[Len(s)]
         IN IF x \in Range(front) THEN front ELSE Append(front, x)

(* peer_stats: per source IP, in dict order *)
peer_stats(ps) ==
    LET order == FirstSeenOrder([i \in 1..Len(ps) |-> ps[i].src])
        From(ip) == SelectSeq(ps, LAMBDA p : p.src = ip)
    IN [i \in 1..Len(order) |->
           [ip |-> order[i], bytes |-> SumLen(From(order[i])), packets |-> Len(From(order[i]))]]

(* the four directional maps, keyed by the remote address *)
window_out_bytes_by_ip(ps) ==
    [ip \in {p.dst : p \in Range(OutPkts(ps))} |->
        SumLen(SelectSeq(OutPkts(ps), LAMBDA p : p.dst = ip))]
window_out_packets_by_ip(ps) ==
    [ip \in {p.dst : p \in Range(OutPkts(ps))} |->
        Len(SelectSeq(OutPkts(ps), LAMBDA p : p.dst = ip))]
(* "= length" in place of "+= length": the map keeps the last packet of *)
(* each address                                                        *)
window_in_bytes_last(ps) ==
    [ip \in {p.src : p \in Range(InPkts(ps))} |->
        LET from == SelectSeq(InPkts(ps), LAMBDA p : p.src = ip)
        IN from[Len(from)].len]

window_in_bytes_by_ip(ps) ==
    [ip \in {p.src : p \in Range(InPkts(ps))} |->
        SumLen(SelectSeq(InPkts(ps), LAMBDA p : p.src = ip))]
window_in_packets_by_ip(ps) ==
    [ip \in {p.src : p \in Range(InPkts(ps))} |->
        Len(SelectSeq(InPkts(ps), LAMBDA p : p.src = ip))]

(* dict.get(ip, 0) *)
GetOr0(m, ip) == IF ip \in DOMAIN m THEN m[ip] ELSE 0

(* sorted(items, key=..., reverse=True): stable, descending on s[i].key *)
InsertStable(sorted, x) ==
    LET k == Cardinality({i \in 1..Len(sorted) : sorted[i].key >= x.key})
    IN SubSeq(sorted, 1, k) \o <<x>> \o SubSeq(sorted, k + 1, Len(sorted))

RECURSIVE SortedDesc(_)
SortedDesc(s) ==
    IF s = <<>> THEN <<>>
    ELSE InsertStable(SortedDesc(SubSeq(s, 1, Len(s) - 1)), s[Len(s)])

(* the first TOP_TALKERS entries of peer_stats as the dict holds them *)
top_peers_unsorted(ps) ==
    LET stats == peer_stats(ps)
    IN Take(stats, TOP_TALKERS)

(* sorted(peer_stats.items(), key=bytes, reverse=True)[:TOP_TALKERS] *)
top_peers(ps) ==
    LET stats == peer_stats(ps)
        keyed == [i \in 1..Len(stats) |-> [key |-> stats[i].bytes, item |-> stats[i]]]
        top == Take(SortedDesc(keyed), TOP_TALKERS)
    IN [i \in 1..Len(top) |-> top[i].item]

(* ------------------------------------------------------------------ *)
(* NodeTracker                                                         *)
(* ------------------------------------------------------------------ *)
PeerIndex(ps, ip) == CHOOSE i \in 1..Len(ps) : ps[i].ip = ip
Tracked(ps) == {ps[i].ip : i \in 1..Len(ps)}

(* update_for_window; order is the iteration order of the set all_ips *)
(* an update that forgets the tracked peers the window did not show *)
update_dropping_absent(ps, now, in_b, out_b, in_p, out_p, order) ==
    LET Visit(old, ip) ==
            [ip                |-> ip,
             first_seen        |-> old.first_seen,
             last_seen         |-> now,
             windows_seen      |-> old.windows_seen + 1,
             in_bytes_total    |-> old.in_bytes_total + GetOr0(in_b, ip),
             out_bytes_total   |-> old.out_bytes_total + GetOr0(out_b, ip),
             in_packets_total  |-> old.in_packets_total + GetOr0(in_p, ip),
             out_packets_total |-> old.out_packets_total + GetOr0(out_p, ip)]
        Fresh(ip) ==
            [ip |-> ip, first_seen |-> now, last_seen |-> now, windows_seen |-> 0,
             in_bytes_total |-> 0, out_bytes_total |-> 0,
             in_packets_total |-> 0, out_packets_total |-> 0]
        created == SelectSeq(order, LAMBDA ip : ip \notin Tracked(ps))
        kept == SelectSeq(ps, LAMBDA p : p.ip \in Range(order))
    IN [i \in 1..Len(kept) |-> Visit(kept[i], kept[i].ip)]
         \o [i \in 1..Len(created) |-> Visit(Fresh(created[i]), created[i])]

(* an update that visits every tracked peer, in the maps or not *)
update_every_peer(ps, now, in_b, out_b, in_p, out_p, order) ==
    LET Visit(old, ip) ==
            [ip                |-> ip,
             first_seen        |-> old.first_seen,
             last_seen         |-> now,
             windows_seen      |-> old.windows_seen + 1,
             in_bytes_total    |-> old.in_bytes_total + GetOr0(in_b, ip),
             out_bytes_total   |-> old.out_bytes_total + GetOr0(out_b, ip),
             in_packets_total  |-> old.in_packets_total + GetOr0(in_p, ip),
             out_packets_total |-> old.out_packets_total + GetOr0(out_p, ip)]
        Fresh(ip) ==
            [ip |-> ip, first_seen |-> now, last_seen |-> now, windows_seen |-> 0,
             in_bytes_total |-> 0, out_bytes_total |-> 0,
             in_packets_total |-> 0, out_packets_total |-> 0]
        created == SelectSeq(order, LAMBDA ip : ip \notin Tracked(ps))
    IN [i \in 1..Len(ps) |-> Visit(ps[i], ps[i].ip)]
         \o [i \in 1..Len(created) |-> Visit(Fresh(created[i]), created[i])]

update_for_window(ps, now, in_b, out_b, in_p, out_p, order) ==
    LET Visit(old, ip) ==
            [ip                |-> ip,
             first_seen        |-> old.first_seen,
             last_seen         |-> now,
             windows_seen      |-> old.windows_seen + 1,
             in_bytes_total    |-> old.in_bytes_total + GetOr0(in_b, ip),
             out_bytes_total   |-> old.out_bytes_total + GetOr0(out_b, ip),
             in_packets_total  |-> old.in_packets_total + GetOr0(in_p, ip),
             out_packets_total |-> old.out_packets_total + GetOr0(out_p, ip)]
        Fresh(ip) ==
            [ip |-> ip, first_seen |-> now, last_seen |-> now, windows_seen |-> 0,
             in_bytes_total |-> 0, out_bytes_total |-> 0,
             in_packets_total |-> 0, out_packets_total |-> 0]
        created == SelectSeq(order, LAMBDA ip : ip \notin Tracked(ps))
    IN [i \in 1..Len(ps) |->
           IF ps[i].ip \in Range(order) THEN Visit(ps[i], ps[i].ip) ELSE ps[i]]
         \o [i \in 1..Len(created) |-> Visit(Fresh(created[i]), created[i])]

AllIps(in_b, out_b, in_p, out_p) ==
    DOMAIN in_b \cup DOMAIN out_b \cup DOMAIN in_p \cup DOMAIN out_p

(* scores are integers in units of 1/ScoreUnit *)
ThresholdProduct == MIN_WINDOWS * MIN_LIFETIME_SEC * MIN_BYTES * MIN_PACKETS
ScoreUnit == 10000 * ThresholdProduct
DefaultMinScore == ScoreUnit \div 5

(* a gate that cuts the score of the peers above the thresholds *)
TrafficFactorInverted(total_bytes, total_packets) ==
    IF total_bytes < MIN_BYTES \/ total_packets < MIN_PACKETS THEN 10 ELSE 3

(* "if total_bytes < min_bytes or total_packets < min_packets:         *)
(* score *= 0.3", in tenths                                            *)
TrafficFactor(total_bytes, total_packets) ==
    IF total_bytes < MIN_BYTES \/ total_packets < MIN_PACKETS THEN 3 ELSE 10

(* a penalty that leaves a one-directional peer half of its score *)
DirectionFactorHalf(peer) ==
    LET has_in == peer.in_bytes_total > 0 /\ peer.in_packets_total > 0
        has_out == peer.out_bytes_total > 0 /\ peer.out_packets_total > 0
    IN IF has_in /\ has_out THEN 10 ELSE 5

(* "score *= 0.2 + 0.8 * bidi", in tenths; bidi is 1.0 when there are  *)
(* bytes and packets in both directions, else 0.0                      *)
DirectionFactor(peer) ==
    LET has_in == peer.in_bytes_total > 0 /\ peer.in_packets_total > 0
        has_out == peer.out_bytes_total > 0 /\ peer.out_packets_total > 0
    IN IF has_in /\ has_out THEN 10 ELSE 2

(* the weighted sum and the two factors alone: no floor on the         *)
(* lifetime, no "too ephemeral" return, no clamp                       *)
_score_peer_unguarded(peer, now) ==
    LET lifetime == peer.last_seen - peer.first_seen
        total_bytes == peer.in_bytes_total + peer.out_bytes_total
        total_packets == peer.in_packets_total + peer.out_packets_total
        win_part == 30 * Min(peer.windows_seen, MIN_WINDOWS) * (ThresholdProduct \div MIN_WINDOWS)
        life_part == 25 * Min(lifetime, MIN_LIFETIME_SEC) * (ThresholdProduct \div MIN_LIFETIME_SEC)
        bytes_part == 25 * Min(total_bytes, MIN_BYTES) * (ThresholdProduct \div MIN_BYTES)
        pkts_part == 20 * Min(total_packets, MIN_PACKETS) * (ThresholdProduct \div MIN_PACKETS)
        bidi == DirectionFactor(peer)
    IN (win_part + life_part + bytes_part + pkts_part)
         * TrafficFactor(total_bytes, total_packets) * bidi

(* a score that falls to 0 once now is past the peer's last_seen *)
_score_peer_aging(peer, now) ==
    IF now > peer.last_seen \/ peer.windows_seen < 2 THEN 0
    ELSE Max(0, Min(ScoreUnit, _score_peer_unguarded(peer, now)))

_score_peer(peer, now) ==
    LET raw_lifetime == peer.last_seen - peer.first_seen
        lifetime == IF raw_lifetime < 0 THEN 0 ELSE raw_lifetime
        total_bytes == peer.in_bytes_total + peer.out_bytes_total
        total_packets == peer.in_packets_total + peer.out_packets_total
        (* each component times its weight, in units of 1/(100*ThresholdProduct) *)
        win_part == 30 * Min(peer.windows_seen, MIN_WINDOWS) * (ThresholdProduct \div MIN_WINDOWS)
        life_part == 25 * Min(lifetime, MIN_LIFETIME_SEC) * (ThresholdProduct \div MIN_LIFETIME_SEC)
        bytes_part == 25 * Min(total_bytes, MIN_BYTES) * (ThresholdProduct \div MIN_BYTES)
        pkts_part == 20 * Min(total_packets, MIN_PACKETS) * (ThresholdProduct \div MIN_PACKETS)
        base == win_part + life_part + bytes_part + pkts_part
        gate == TrafficFactor(total_bytes, total_packets)
        bidi == DirectionFactor(peer)
        score == base * gate * bidi
    IN IF peer.windows_seen < 2 THEN 0
       ELSE IF score < 0 THEN 0
       ELSE IF score > ScoreUnit THEN ScoreUnit
       ELSE score

(* a digest that depends on the process: Python's salted hash() in     *)
(* place of hashlib                                                    *)
_hash_ip_per_process(ip) ==
    LET h == Sha256Hex(ip)
        salted == IF instance % 2 = 1 THEN h ELSE SubSeq(h, 2, Len(h)) \o SubSeq(h, 1, 1)
    IN <<"node-" \o SubSeq(salted, 1, 8), salted>>

(* ("node-" + h[:8], h) *)
_hash_ip(ip) ==
    LET h == Sha256Hex(ip) IN <<"node-" \o SubSeq(h, 1, 8), h>>

(* round(n/d) to the nearest integer, ties to even (Python round) *)
RoundHalfEven(n, d) ==
    LET q == n \div d
        r == n % d
    IN IF 2 * r < d THEN q
       ELSE IF 2 * r > d THEN q + 1
       ELSE IF q % 2 = 0 THEN q ELSE q + 1

(* a candidate that carries the address as its label *)
CandidateOfLeaky(score, peer) ==
    [id           |-> peer.ip,
     ip_hash      |-> _hash_ip(peer.ip)[2],
     score        |-> RoundHalfEven(score * 1000, ScoreUnit),
     lifetime_sec |-> peer.last_seen - peer.first_seen,
     windows_seen |-> peer.windows_seen,
     in_bytes     |-> peer.in_bytes_total,
     out_bytes    |-> peer.out_bytes_total,
     in_packets   |-> peer.in_packets_total,
     out_packets  |-> peer.out_packets_total]

(* one entry of the result of get_candidates; score in thousandths *)
CandidateOf(score, peer) ==
    [id           |-> _hash_ip(peer.ip)[1],
     ip_hash      |-> _hash_ip(peer.ip)[2],
     score        |-> RoundHalfEven(score * 1000, ScoreUnit),
     lifetime_sec |-> peer.last_seen - peer.first_seen,
     windows_seen |-> peer.windows_seen,
     in_bytes     |-> peer.in_bytes_total,
     out_bytes    |-> peer.out_bytes_total,
     in_packets   |-> peer.in_packets_total,
     out_packets  |-> peer.out_packets_total]

(* the kept pairs cut in tracking order, without the sort *)
RankedPeersUnsorted(ps, now, min_score, limit) ==
    LET scored == [i \in 1..Len(ps) |-> [key |-> _score_peer(ps[i], now), item |-> ps[i]]]
        kept == SelectSeq(scored, LAMBDA c : c.key >= min_score)
    IN Take(kept, limit)

(* the (score, peer) pairs get_candidates keeps, sorted and cut *)
RankedPeers(ps, now, min_score, limit) ==
    LET scored == [i \in 1..Len(ps) |-> [key |-> _score_peer(ps[i], now), item |-> ps[i]]]
        kept == SelectSeq(scored, LAMBDA c : c.key >= min_score)
    IN Take(SortedDesc(kept), limit)

get_candidates(ps, now, min_score, limit) ==
    LET ranked == RankedPeers(ps, now, min_score, limit)
    IN [i \in 1..Len(ranked) |-> CandidateOf(ranked[i].key, ranked[i].item)]

(* ------------------------------------------------------------------ *)
(* capture_loop: the window record                                     *)
(* ------------------------------------------------------------------ *)
(* get_system_metrics(): host readings, opaque here *)
get_system_metrics ==
    [cpu_usage |-> "host", mem_used_mb |-> "host", mem_total_mb |-> "host",
     disk_used_pct |-> "host", disk_used_gb |-> "host", disk_free_gb |-> "host"]

(* the remote ends of the classified packets *)
RemotePeers(ps) ==
    {p.dst : p \in Range(OutPkts(ps))} \cup {p.src : p \in Range(InPkts(ps))}

(* set(peer_stats.keys()) *)
CurrentPeers(ps) == {p.src : p \in Range(ps)}

(* totals taken from the directional counters *)
TotalBytesClassified(ps) == SumLen(InPkts(ps)) + SumLen(OutPkts(ps))

(* sum(length for _, _, length in packets) *)
TotalBytes(ps) == SumLen(ps)

(* a new_peers that counts every peer of the window *)
NewPeersAll(current, previous) == Cardinality(current)

(* len(current_peers - PREVIOUS_PEERS) *)
NewPeers(current, previous) == Cardinality(current \ previous)

(* an expired_peers that counts the peers that stayed *)
ExpiredPeersKept(current, previous) == Cardinality(previous \cap current)

(* len(PREVIOUS_PEERS - current_peers) *)
ExpiredPeers(current, previous) == Cardinality(previous \ current)

BuildWindow(ts, ps, previous, node_candidates) ==
    LET current_peers == CurrentPeers(ps)
        top == top_peers(ps)
    IN get_system_metrics @@
       [ts              |-> ts,
        unique_peers    |-> Cardinality(current_peers),
        total_bytes     |-> TotalBytes(ps),
        total_packets   |-> Len(ps),
        in_bytes        |-> SumLen(InPkts(ps)),
        out_bytes       |-> SumLen(OutPkts(ps)),
        in_packets      |-> Len(InPkts(ps)),
        out_packets     |-> Len(OutPkts(ps)),
        new_peers       |-> NewPeers(current_peers, previous),
        expired_peers   |-> ExpiredPeers(current_peers, previous),
        top_peers       |-> [i \in 1..Len(top) |->
                               [ip |-> top[i].ip, bytes |-> top[i].bytes,
                                packets |-> top[i].packets]],
        node_candidates |-> node_candidates]

(* ------------------------------------------------------------------ *)
(* Inputs                                                              *)
(* ------------------------------------------------------------------ *)
(* seconds the clock moves between loop top and time.time(): a normal  *)
(* capture, one that takes INTERVAL_SECONDS exactly, one that overruns *)
ClockSteps == {1, INTERVAL_SECONDS, INTERVAL_SECONDS + 1}
(* every capture takes its normal time *)
SteadyClock == {1}
(* inbound and outbound traffic of one peer, inbound traffic of another *)
WireLines ==
    {Pkt(RemoteA, LocalIp, 1), Pkt(LocalIp, RemoteA, 2), Pkt(RemoteB, LocalIp, 1)}
StdoutLines == SeqsUpTo(WireLines \cup NoiseLines, MaxLines)

(* rows a database file holds when the process starts *)
OldRow(i, n) ==
    [id |-> i, ts_utc |-> i - n - 1, unique_peers |-> 0, total_bytes |-> 0, total_packets |-> 0]
OldRows(n) == [i \in 1..n |-> OldRow(i, n)]

(* ------------------------------------------------------------------ *)
(* State after import and start_capture_thread                         *)
(* ------------------------------------------------------------------ *)
InitMemory ==
    /\ metrics_history = <<>>
    /\ latest_top_peers = <<>>
    /\ latest_node_candidates = <<>>
    /\ metrics_lock = None
    /\ db_lock = None
    /\ PREVIOUS_PEERS = {}
    /\ peers = <<>>
    /\ instance = 1
    /\ clock = 0
    /\ pc = "start"
    /\ window_start = None
    /\ window = None
    /\ cycles = 0
    /\ appended = <<>>
    /\ observed = <<>>
    /\ result = None
    /\ capture_threads = <<>>
    /\ db_stats_pc = "idle"
    /\ db_stats = None
    /\ emitted = {}
    /\ snap_pc = "idle"
    /\ snap = None
    /\ health_pc = "idle"
    /\ health = None
    /\ capture_failed = FALSE
    /\ db_failed = <<>>

Init ==
    /\ InitMemory
    /\ LOCAL_IPS = HostIps
    /\ db_conn \in BOOLEAN
    /\ db_rows = <<>>
    /\ db_seq = 0
    /\ db_durable = [rows |-> <<>>, seq |-> 0]

(* ------------------------------------------------------------------ *)
(* capture_loop: the order of the steps of one pass of "while True"    *)
(* ------------------------------------------------------------------ *)
(* the durable insert placed before the in-memory append *)
StepAfterSaveFirst(step) ==
    CASE step = "build"      -> "save"
      [] step = "save"       -> "add_window"
      [] step = "add_window" -> "sleep"
      [] step = "sleep"      -> "start"

StepAfter(step) ==
    CASE step = "build"      -> "add_window"
      [] step = "add_window" -> "save"
      [] step = "save"       -> "sleep"
      [] step = "sleep"      -> "start"

(* ------------------------------------------------------------------ *)
(* capture_loop, one window: capture, aggregate, churn, score          *)
(* ------------------------------------------------------------------ *)
StoreVars == <<metrics_history, latest_top_peers, latest_node_candidates, metrics_lock>>
DbVars == <<db_conn, db_rows, db_seq, db_lock, db_durable>>
TrackerVars == <<PREVIOUS_PEERS, peers, emitted>>
ReaderVars == <<snap_pc, snap, health_pc, health>>

EmittedBy(ranked) ==
    {[ip       |-> ranked[i].item.ip,
      id       |-> CandidateOf(ranked[i].key, ranked[i].item).id,
      ip_hash  |-> CandidateOf(ranked[i].key, ranked[i].item).ip_hash,
      instance |-> instance] : i \in 1..Len(ranked)}

(* capture_loop has no handler of its own: an exception that leaves a  *)
(* call made in the loop body ends the capture thread                  *)
CaptureWindow(stdouts, steps, max_cycles) ==
    /\ pc = "start"
    /\ cycles < max_cycles
    /\ cycles' = cycles + 1
    /\ \E outcome \in CaptureOutcomes(stdouts), d \in steps :
         LET captured == run_capture(outcome)
             packets == captured.packets
             in_b == window_in_bytes_by_ip(packets)
             out_b == window_out_bytes_by_ip(packets)
             in_p == window_in_packets_by_ip(packets)
             out_p == window_out_packets_by_ip(packets)
             now == clock + d
         IN /\ window_start' = clock
            /\ capture_failed' = outcome.raised
            /\ clock' = now
            /\ observed' = Append(observed, packets)
            /\ IF captured.escaped
               THEN /\ pc' = "crashed"
                    /\ UNCHANGED <<PREVIOUS_PEERS, peers, emitted, window>>
               ELSE \E order \in Perms(AllIps(in_b, out_b, in_p, out_p)) :
                      LET tracked == update_for_window(peers, now, in_b, out_b,
                                                       in_p, out_p, order)
                      IN /\ PREVIOUS_PEERS' = CurrentPeers(packets)
                         /\ peers' = tracked
                         /\ emitted' = emitted \cup EmittedBy(
                                RankedPeers(tracked, now, DefaultMinScore, CANDIDATE_LIMIT))
                         /\ window' = BuildWindow(clock, packets, PREVIOUS_PEERS,
                                get_candidates(tracked, now, DefaultMinScore,
                                               CANDIDATE_LIMIT))
                         /\ pc' = StepAfter("build")
    /\ UNCHANGED <<StoreVars, DbVars, ReaderVars, LOCAL_IPS, db_stats_pc, db_stats, result,
                   capture_threads,
                   instance, appended, db_failed>>

(* ------------------------------------------------------------------ *)
(* add_window                                                          *)
(* ------------------------------------------------------------------ *)
(* a plain list in place of the bounded deque *)
DequeAppendUnbounded(history, w) == Append(history, w)

(* deque(maxlen=MAX_POINTS).append *)
DequeAppend(history, w) == LastN(Append(history, w), MAX_POINTS)

(* a block entered without waiting for the lock *)
AcquireWithoutExclusion(t) == metrics_lock' = t

(* "with metrics_lock:" entered by thread t *)
AcquireMetricsLock(t) ==
    /\ metrics_lock = None
    /\ metrics_lock' = t

AddWindowEnter ==
    /\ pc = "add_window"
    /\ AcquireMetricsLock("capture")
    /\ pc' = "add_append"
    /\ UNCHANGED <<metrics_history, latest_top_peers, latest_node_candidates, DbVars,
                   TrackerVars, ReaderVars, instance, clock, window_start, window,
                   cycles, appended, observed, LOCAL_IPS, db_stats_pc, db_stats, result,
                   capture_threads,
                   capture_failed, db_failed>>

AddWindowAppend ==
    /\ pc = "add_append"
    /\ metrics_history' = DequeAppend(metrics_history, window)
    /\ appended' = Append(appended, window)
    /\ pc' = "add_top"
    /\ UNCHANGED <<latest_top_peers, latest_node_candidates, metrics_lock, DbVars,
                   TrackerVars, ReaderVars, instance, clock, window_start, window,
                   cycles, observed, LOCAL_IPS, db_stats_pc, db_stats, result, capture_threads,
                   capture_failed,
                   db_failed>>

AddWindowTop ==
    /\ pc = "add_top"
    /\ latest_top_peers' = window.top_peers
    /\ pc' = "add_nodes"
    /\ UNCHANGED <<metrics_history, latest_node_candidates, metrics_lock, DbVars,
                   TrackerVars, ReaderVars, instance, clock, window_start, window,
                   cycles, appended, observed, LOCAL_IPS, db_stats_pc, db_stats, result,
                   capture_threads,
                   capture_failed, db_failed>>

AddWindowNodes ==
    /\ pc = "add_nodes"
    /\ latest_node_candidates' = window.node_candidates
    /\ metrics_lock' = None
    /\ pc' = StepAfter("add_window")
    /\ UNCHANGED <<metrics_history, latest_top_peers, DbVars,
                   TrackerVars, ReaderVars, instance, clock, window_start, window,
                   cycles, appended, observed, LOCAL_IPS, db_stats_pc, db_stats, result,
                   capture_threads,
                   capture_failed, db_failed>>

(* ------------------------------------------------------------------ *)
(* save_window_to_db                                                   *)
(* ------------------------------------------------------------------ *)
RowOf(id, w) ==
    [id |-> id, ts_utc |-> w.ts, unique_peers |-> w.unique_peers,
     total_bytes |-> w.total_bytes, total_packets |-> w.total_packets]

(* ORDER BY id DESC in the retention DELETE *)
DeleteNewest(rows, to_delete) == SubSeq(rows, 1, Len(rows) - to_delete)

(* DELETE ... WHERE id IN (SELECT id ... ORDER BY id ASC LIMIT to_delete) *)
DeleteOldest(rows, to_delete) == SubSeq(rows, to_delete + 1, Len(rows))

(* the retention step: the row count, then the DELETE when over the cap *)
Trimmed(rows) ==
    LET count == Len(rows)
    IN IF count > DB_MAX_ROWS THEN DeleteOldest(rows, count - DB_MAX_ROWS) ELSE rows

(* an sqlite3 call raised: "with db_lock" releases, the exception leaves *)
(* save_window_to_db and capture_loop, which ends the capture thread     *)
SaveRaises ==
    /\ db_lock' = None
    /\ db_failed' = <<window.ts>>
    /\ pc' = "crashed"

(* "if db_conn is None: return" *)
SaveSkipped ==
    /\ pc = "save"
    /\ ~db_conn
    /\ pc' = StepAfter("save")
    /\ UNCHANGED <<StoreVars, DbVars, TrackerVars, ReaderVars, instance, clock,
                   window_start, window, cycles, appended, observed, LOCAL_IPS, db_stats_pc,
                   db_stats, result,
                   capture_threads,
                   capture_failed, db_failed>>

SaveEnter ==
    /\ pc = "save"
    /\ db_conn
    /\ db_lock = None
    /\ db_lock' = "capture"
    /\ pc' = "db_insert"
    /\ UNCHANGED <<StoreVars, db_conn, db_rows, db_seq, db_durable, TrackerVars, ReaderVars,
                   instance, clock, window_start, window, cycles, appended, observed,
                   LOCAL_IPS, db_stats_pc, db_stats, result, capture_threads, capture_failed,
                   db_failed>>

SaveInsert ==
    /\ pc = "db_insert"
    /\ \/ /\ db_rows' = Append(db_rows, RowOf(db_seq + 1, window))
          /\ db_seq' = db_seq + 1
          /\ pc' = "db_trim"
          /\ UNCHANGED <<db_lock, db_failed>>
       \/ /\ SaveRaises
          /\ UNCHANGED <<db_rows, db_seq>>
    /\ UNCHANGED <<StoreVars, db_conn, db_durable, TrackerVars, ReaderVars, instance,
                   clock, window_start, window, cycles, appended, observed, LOCAL_IPS,
                   db_stats_pc, db_stats,
                   result, capture_threads,
                   capture_failed>>

SaveTrim ==
    /\ pc = "db_trim"
    /\ \/ /\ db_rows' = Trimmed(db_rows)
          /\ pc' = "db_commit"
          /\ UNCHANGED <<db_lock, db_failed>>
       \/ /\ SaveRaises
          /\ UNCHANGED db_rows
    /\ UNCHANGED <<StoreVars, db_conn, db_seq, db_durable, TrackerVars, ReaderVars, instance,
                   clock, window_start, window, cycles, appended, observed, LOCAL_IPS,
                   db_stats_pc, db_stats,
                   result, capture_threads,
                   capture_failed>>

SaveCommit ==
    /\ pc = "db_commit"
    /\ \/ /\ db_durable' = [rows |-> db_rows, seq |-> db_seq]
          /\ db_lock' = None
          /\ pc' = StepAfter("save")
          /\ UNCHANGED db_failed
       \/ /\ SaveRaises
          /\ UNCHANGED db_durable
    /\ UNCHANGED <<StoreVars, db_conn, db_rows, db_seq, TrackerVars, ReaderVars, instance,
                   clock, window_start, window, cycles, appended, observed, LOCAL_IPS,
                   db_stats_pc, db_stats,
                   result, capture_threads,
                   capture_failed>>

(* ------------------------------------------------------------------ *)
(* capture_loop: sleep up to the next interval                         *)
(* ------------------------------------------------------------------ *)
(* a fixed pause, whatever the cycle took *)
SleepFixed(start, now) == INTERVAL_SECONDS

(* max(0, INTERVAL_SECONDS - elapsed) *)
SleepFor(start, now) == Max(0, INTERVAL_SECONDS - (now - start))

Sleep ==
    /\ pc = "sleep"
    /\ clock' = clock + SleepFor(window_start, clock)
    /\ pc' = StepAfter("sleep")
    /\ UNCHANGED <<StoreVars, DbVars, TrackerVars, ReaderVars, instance,
                   window_start, window, cycles, appended, observed, LOCAL_IPS, db_stats_pc,
                   db_stats, result,
                   capture_threads,
                   capture_failed, db_failed>>

(* ------------------------------------------------------------------ *)
(* get_metrics_snapshot, called from a request thread                  *)
(* ------------------------------------------------------------------ *)
CaptureVars == <<pc, window_start, window, cycles, clock, capture_failed, db_failed,
                 appended, observed, instance, LOCAL_IPS, db_stats_pc, db_stats, result,
                 capture_threads>>

SnapshotEnter ==
    /\ snap_pc = "idle"
    /\ AcquireMetricsLock("snapshot")
    /\ snap_pc' = "copy_history"
    /\ snap' = [history |-> None, top |-> None, nodes |-> None]
    /\ UNCHANGED <<metrics_history, latest_top_peers, latest_node_candidates, DbVars,
                   TrackerVars, CaptureVars, health_pc, health>>

SnapshotCopyHistory ==
    /\ snap_pc = "copy_history"
    /\ snap' = [snap EXCEPT !.history = metrics_history]
    /\ snap_pc' = "copy_top"
    /\ UNCHANGED <<StoreVars, DbVars, TrackerVars, CaptureVars, health_pc, health>>

SnapshotCopyTop ==
    /\ snap_pc = "copy_top"
    /\ snap' = [snap EXCEPT !.top = latest_top_peers]
    /\ snap_pc' = "copy_nodes"
    /\ UNCHANGED <<StoreVars, DbVars, TrackerVars, CaptureVars, health_pc, health>>

SnapshotCopyNodes ==
    /\ snap_pc = "copy_nodes"
    /\ snap' = [snap EXCEPT !.nodes = latest_node_candidates]
    /\ metrics_lock' = None
    /\ snap_pc' = "returned"
    /\ UNCHANGED <<metrics_history, latest_top_peers, latest_node_candidates, DbVars,
                   TrackerVars, CaptureVars, health_pc, health>>

(* the caller is done with the result; the next request may come *)
SnapshotDone ==
    /\ snap_pc = "returned"
    /\ snap_pc' = "idle"
    /\ snap' = None
    /\ UNCHANGED <<StoreVars, DbVars, TrackerVars, CaptureVars, health_pc, health>>

(* ------------------------------------------------------------------ *)
(* get_health_info, called from a request thread                       *)
(* ------------------------------------------------------------------ *)
HealthEnter ==
    /\ health_pc = "idle"
    /\ AcquireMetricsLock("health")
    /\ health_pc' = "read_points"
    /\ health' = [points |-> None, last |-> <<>>]
    /\ UNCHANGED <<metrics_history, latest_top_peers, latest_node_candidates, DbVars,
                   TrackerVars, CaptureVars, snap_pc, snap>>

HealthReadPoints ==
    /\ health_pc = "read_points"
    /\ health' = [health EXCEPT !.points = Len(metrics_history)]
    /\ health_pc' = "read_last"
    /\ UNCHANGED <<StoreVars, DbVars, TrackerVars, CaptureVars, snap_pc, snap>>

(* "metrics_history[-1] if points > 0 else None"; an index into an empty *)
(* deque is not reached under the lock                                   *)
HealthReadLast ==
    /\ health_pc = "read_last"
    /\ health' = [health EXCEPT !.last =
                     IF health.points > 0 /\ metrics_history # <<>>
                     THEN <<metrics_history[Len(metrics_history)]>> ELSE <<>>]
    /\ metrics_lock' = None
    /\ health_pc' = "compute"
    /\ UNCHANGED <<metrics_history, latest_top_peers, latest_node_candidates, DbVars,
                   TrackerVars, CaptureVars, snap_pc, snap>>

(* the part of get_health_info after the lock is released; last is <<>> *)
(* for None and <<w>> for the window record w                          *)
HealthResult(points, last, now) ==
    IF last # <<>>
    THEN [status           |-> IF last[1].total_packets > 0 THEN "ok" ELSE "idle",
          points           |-> points,
          last_ts          |-> last[1].ts,
          last_packets     |-> last[1].total_packets,
          last_bytes       |-> last[1].total_bytes,
          age_seconds      |-> now - last[1].ts,
          interval_seconds |-> INTERVAL_SECONDS]
    ELSE [status           |-> "cold",
          points           |-> points,
          last_ts          |-> None,
          last_packets     |-> None,
          last_bytes       |-> None,
          age_seconds      |-> None,
          interval_seconds |-> INTERVAL_SECONDS]

HealthCompute ==
    /\ health_pc = "compute"
    /\ health' = HealthResult(health.points, health.last, clock)
    /\ health_pc' = "returned"
    /\ UNCHANGED <<StoreVars, DbVars, TrackerVars, CaptureVars, snap_pc, snap>>

HealthDone ==
    /\ health_pc = "returned"
    /\ health_pc' = "idle"
    /\ health' = None
    /\ UNCHANGED <<StoreVars, DbVars, TrackerVars, CaptureVars, snap_pc, snap>>

(* ------------------------------------------------------------------ *)
(* The process is stopped and started again: memory is lost, the       *)
(* database file stays                                                 *)
(* ------------------------------------------------------------------ *)
Restart ==
    /\ instance <= MaxRestarts
    /\ instance' = instance + 1
    /\ metrics_history' = <<>>
    /\ latest_top_peers' = <<>>
    /\ latest_node_candidates' = <<>>
    /\ metrics_lock' = None
    /\ db_lock' = None
    /\ db_rows' = db_durable.rows
    /\ db_seq' = db_durable.seq
    /\ PREVIOUS_PEERS' = {}
    /\ peers' = <<>>
    /\ pc' = "start"
    /\ window_start' = None
    /\ window' = None
    /\ appended' = <<>>
    /\ observed' = <<>>
    /\ capture_failed' = FALSE
    /\ db_failed' = <<>>
    /\ snap_pc' = "idle"
    /\ snap' = None
    /\ health_pc' = "idle"
    /\ health' = None
    /\ UNCHANGED <<db_conn, db_durable, LOCAL_IPS, db_stats_pc, db_stats, result,
                   capture_threads, clock,
                   cycles, emitted>>

(* ------------------------------------------------------------------ *)
(* Spec: the capture thread with the database                          *)
(* ------------------------------------------------------------------ *)
CaptureStep == CaptureWindow(StdoutLines, SteadyClock, MaxWindows)

Next ==
    \/ CaptureStep
    \/ AddWindowEnter
    \/ AddWindowAppend
    \/ AddWindowTop
    \/ AddWindowNodes
    \/ SaveSkipped
    \/ SaveEnter
    \/ SaveInsert
    \/ SaveTrim
    \/ SaveCommit
    \/ Sleep

Spec == Init /\ [][Next]_vars

(* ------------------------------------------------------------------ *)
(* SpecStore: the capture thread with the request threads that read    *)
(* the store; no database is configured                                *)
(* ------------------------------------------------------------------ *)
(* inbound traffic of one remote peer *)
PeerLines == {Pkt(RemoteA, LocalIp, 1)}
PeerStdout == SeqsUpTo(PeerLines, MaxLines)

InitStore ==
    /\ InitMemory
    /\ LOCAL_IPS = HostIps
    /\ db_conn = FALSE
    /\ db_rows = <<>>
    /\ db_seq = 0
    /\ db_durable = [rows |-> <<>>, seq |-> 0]

CaptureStepStore == CaptureWindow(PeerStdout, SteadyClock, MaxStoreWindows)

NextStore ==
    \/ CaptureStepStore
    \/ AddWindowEnter
    \/ AddWindowAppend
    \/ AddWindowTop
    \/ AddWindowNodes
    \/ SaveSkipped
    \/ Sleep
    \/ SnapshotEnter
    \/ SnapshotCopyHistory
    \/ SnapshotCopyTop
    \/ SnapshotCopyNodes
    \/ SnapshotDone
    \/ HealthEnter
    \/ HealthReadPoints
    \/ HealthReadLast
    \/ HealthCompute
    \/ HealthDone

SpecStore == InitStore /\ [][NextStore]_vars

(* ------------------------------------------------------------------ *)
(* SpecDb: the capture thread over a database file that holds rows of  *)
(* earlier runs                                                        *)
(* ------------------------------------------------------------------ *)
InitDb ==
    /\ InitMemory
    /\ LOCAL_IPS = HostIps
    /\ db_conn = TRUE
    /\ \E n \in 0..MaxInitRows :
         /\ db_rows = OldRows(n)
         /\ db_seq = n
         /\ db_durable = [rows |-> OldRows(n), seq |-> n]

CaptureStepDb == CaptureWindow(PeerStdout, ClockSteps, MaxDbWindows)

NextDb ==
    \/ CaptureStepDb
    \/ AddWindowEnter
    \/ AddWindowAppend
    \/ AddWindowTop
    \/ AddWindowNodes
    \/ SaveEnter
    \/ SaveInsert
    \/ SaveTrim
    \/ SaveCommit
    \/ Sleep

SpecDb == InitDb /\ [][NextDb]_vars

(* ------------------------------------------------------------------ *)
(* SpecRestart: the process is stopped and started again between       *)
(* windows; no database is configured                                  *)
(* ------------------------------------------------------------------ *)
CaptureStepRestart == CaptureWindow(PeerStdout, SteadyClock, MaxRestartWindows)

NextRestart ==
    \/ CaptureStepRestart
    \/ AddWindowEnter
    \/ AddWindowAppend
    \/ AddWindowTop
    \/ AddWindowNodes
    \/ SaveSkipped
    \/ Sleep
    \/ Restart

SpecRestart == InitStore /\ [][NextRestart]_vars

(* ------------------------------------------------------------------ *)
(* SpecWindow: the capture thread on hosts with different interface    *)
(* addresses, with several packets per window; no database is          *)
(* configured                                                          *)
(* ------------------------------------------------------------------ *)
(* a packet from 1.2.3.4 to 10.0.0.1 and a larger one from 10.0.0.1 to *)
(* 5.6.7.8                                                             *)
FlowLines == {Pkt(RemoteA, LocalIp, 1), Pkt(LocalIp, RemoteB, 2)}
FlowStdout == SeqsUpTo(FlowLines, MaxFlowLines)
(* what get_local_ipv4_addresses may return: no address found, the     *)
(* address of the receiver, both ends of the first packet, the far end *)
(* of the second packet only                                           *)
LocalSets == {{}, {LocalIp}, {LocalIp, RemoteA}, {RemoteB}}

InitWindow ==
    /\ InitMemory
    /\ LOCAL_IPS \in LocalSets
    /\ db_conn = FALSE
    /\ db_rows = <<>>
    /\ db_seq = 0
    /\ db_durable = [rows |-> <<>>, seq |-> 0]

CaptureStepWindow == CaptureWindow(FlowStdout, SteadyClock, MaxFlowWindows)

NextWindow ==
    \/ CaptureStepWindow
    \/ AddWindowEnter
    \/ AddWindowAppend
    \/ AddWindowTop
    \/ AddWindowNodes
    \/ SaveSkipped
    \/ Sleep

SpecWindow == InitWindow /\ [][NextWindow]_vars

(* ------------------------------------------------------------------ *)
(* SpecTalkers: the capture thread with more source addresses in a     *)
(* window than TOP_TALKERS; no database is configured                  *)
(* ------------------------------------------------------------------ *)
(* two remote senders of equal volume and a larger packet sent by the  *)
(* host                                                                *)
TalkerLines ==
    {Pkt(RemoteA, LocalIp, 1), Pkt(RemoteB, LocalIp, 1), Pkt(LocalIp, RemoteA, 2)}
TalkerStdout == SeqsUpTo(TalkerLines, MaxTalkerLines)

CaptureStepTalkers == CaptureWindow(TalkerStdout, SteadyClock, MaxTalkerWindows)

NextTalkers ==
    \/ CaptureStepTalkers
    \/ AddWindowEnter
    \/ AddWindowAppend
    \/ AddWindowTop
    \/ AddWindowNodes
    \/ SaveSkipped
    \/ Sleep

SpecTalkers == InitStore /\ [][NextTalkers]_vars

(* ------------------------------------------------------------------ *)
(* SpecTracker: a NodeTracker fed through update_for_window with any   *)
(* per-window counters and any clock reading, one address              *)
(* ------------------------------------------------------------------ *)
(* what one window adds to a counter of the peer *)
Increments == {0, 1}
(* time.time() as read in each window: the wall clock may stand still  *)
(* or be set back                                                      *)
TrackerTimes == 0..MaxTrackerTime

TrackerUpdate ==
    /\ cycles < MaxTrackerUpdates
    /\ cycles' = cycles + 1
    /\ \E now \in TrackerTimes, ib \in Increments, ob \in Increments,
          ip \in Increments, op \in Increments :
         /\ clock' = now
         /\ peers' = update_for_window(peers, now,
                         [a \in {RemoteA} |-> ib], [a \in {RemoteA} |-> ob],
                         [a \in {RemoteA} |-> ip], [a \in {RemoteA} |-> op],
                         <<RemoteA>>)
    /\ UNCHANGED <<StoreVars, DbVars, ReaderVars, LOCAL_IPS, db_stats_pc, db_stats, result,
                   capture_threads,
                   PREVIOUS_PEERS, emitted,
                   instance, pc, window_start, window, appended, observed,
                   capture_failed, db_failed>>

NextTracker == TrackerUpdate

SpecTracker == InitStore /\ [][NextTracker]_vars

(* ------------------------------------------------------------------ *)
(* SpecTrackerQuiet: the NodeTracker of SpecTracker, with windows in   *)
(* which the tracked address does not appear                           *)
(* ------------------------------------------------------------------ *)
(* update_for_window with four maps that have no key, then             *)
(* get_candidates(now)                                                 *)
TrackerQuiet ==
    /\ cycles < MaxTrackerUpdates
    /\ cycles' = cycles + 1
    /\ \E now \in TrackerTimes :
         /\ clock' = now
         /\ peers' = update_for_window(peers, now, <<>>, <<>>, <<>>, <<>>, <<>>)
    /\ UNCHANGED <<StoreVars, DbVars, ReaderVars, LOCAL_IPS, db_stats_pc, db_stats, result,
                   capture_threads,
                   PREVIOUS_PEERS, emitted,
                   instance, pc, window_start, window, appended, observed,
                   capture_failed, db_failed>>

NextTrackerQuiet ==
    \/ TrackerUpdate
    \/ TrackerQuiet

SpecTrackerQuiet == InitStore /\ [][NextTrackerQuiet]_vars

(* ------------------------------------------------------------------ *)
(* SpecAlias: the store, its readers, and a caller of                  *)
(* get_metrics_snapshot that writes to what it was given. list(...)    *)
(* builds a new list of the same dict objects; a window record is one  *)
(* object, identified by its ts, however many lists refer to it        *)
(* ------------------------------------------------------------------ *)
(* the object with timestamp ts after record["total_packets"] = -1, as *)
(* seen through any reference to it                                    *)
Written(w, ts) == IF w.ts = ts THEN [w EXCEPT !.total_packets = -1] ELSE w

WrittenIn(list, ts) == [i \in 1..Len(list) |-> Written(list[i], ts)]

(* history[i]["total_packets"] = -1 on the returned history: the same  *)
(* object is in metrics_history, may be capture_loop's window and the  *)
(* `last` a get_health_info call holds after releasing the lock        *)
CallerWritesRecord ==
    /\ snap_pc = "returned"
    /\ \E i \in 1..Len(snap.history) :
         LET ts == snap.history[i].ts
         IN /\ snap.history[i].total_packets # -1
            /\ snap' = [snap EXCEPT !.history = WrittenIn(@, ts)]
            /\ metrics_history' = WrittenIn(metrics_history, ts)
            /\ window' = Written(window, ts)
            /\ health' = IF health_pc = "compute"
                         THEN [health EXCEPT !.last = WrittenIn(@, ts)]
                         ELSE health
    /\ UNCHANGED <<latest_top_peers, latest_node_candidates, metrics_lock, DbVars,
                   TrackerVars, snap_pc, health_pc, instance, clock, pc, window_start,
                   cycles, appended, observed, LOCAL_IPS, db_stats_pc, db_stats, result,
                   capture_threads,
                   capture_failed, db_failed>>

(* del history[0] on the returned history: the list is the caller's *)
CallerWritesHistory ==
    /\ snap_pc = "returned"
    /\ snap.history # <<>>
    /\ snap' = [snap EXCEPT !.history = Tail(@)]
    /\ UNCHANGED <<StoreVars, DbVars, TrackerVars, CaptureVars, snap_pc, health_pc, health>>

(* latest_top.clear() and node_candidates.clear() on the returned lists *)
CallerWritesLatest ==
    /\ snap_pc = "returned"
    /\ snap.top # <<>> \/ snap.nodes # <<>>
    /\ snap' = [snap EXCEPT !.top = <<>>, !.nodes = <<>>]
    /\ UNCHANGED <<StoreVars, DbVars, TrackerVars, CaptureVars, snap_pc, health_pc, health>>

CaptureStepAlias == CaptureWindow(PeerStdout, SteadyClock, MaxAliasWindows)

NextAlias ==
    \/ CaptureStepAlias
    \/ AddWindowEnter
    \/ AddWindowAppend
    \/ AddWindowTop
    \/ AddWindowNodes
    \/ SaveSkipped
    \/ Sleep
    \/ SnapshotEnter
    \/ SnapshotCopyHistory
    \/ SnapshotCopyTop
    \/ SnapshotCopyNodes
    \/ SnapshotDone
    \/ CallerWritesRecord
    \/ CallerWritesHistory
    \/ CallerWritesLatest
    \/ HealthEnter
    \/ HealthReadPoints
    \/ HealthReadLast
    \/ HealthCompute
    \/ HealthDone

SpecAlias == InitStore /\ [][NextAlias]_vars

(* ------------------------------------------------------------------ *)
(* SpecCapture: one call of run_capture over the text tshark printed.  *)
(* A stdout line is the sequence of its whitespace-separated parts     *)
(* (line.split()); <<>> is a blank line                                *)
(* ------------------------------------------------------------------ *)
RawLines ==
    {<<>>,
     <<"Running", "as", "user", "root">>,
     <<"Capturing", "on", "eth0">>,
     <<"1", "packets", "captured">>,
     <<RemoteA, LocalIp>>,
     <<RemoteA, LocalIp, "abc">>,
     <<RemoteA, LocalIp, "1">>,
     <<LocalIp, RemoteB, "2", "x">>}
RawStdout == SeqsUpTo(RawLines, MaxRawLines)

(* int(length_str): the strings it accepts, and its value *)
IntStrings == {"1", "2"}
IntOf(str) == CASE str = "1" -> 1 [] str = "2" -> 2

StartsWith(parts, words) ==
    /\ Len(parts) >= Len(words)
    /\ SubSeq(parts, 1, Len(words)) = words

Noise(kind) == [kind |-> kind, src |-> RemoteA, dst |-> LocalIp, len |-> 1]

(* the chain of tests of the parse loop, in its order *)
LineOf(parts) ==
    IF parts = <<>> THEN Noise("blank")
    ELSE IF \/ StartsWith(parts, <<"Running", "as", "user">>)
            \/ StartsWith(parts, <<"Capturing", "on">>)
         THEN Noise("banner")
    ELSE IF Contains(parts, <<"packets", "captured">>) THEN Noise("banner")
    ELSE IF Len(parts) < 3 THEN Noise("short")
    ELSE IF parts[3] \notin IntStrings THEN Noise("badlen")
    ELSE Pkt(parts[1], parts[2], IntOf(parts[3]))

LinesOf(stdout) == [i \in 1..Len(stdout) |-> LineOf(stdout[i])]

(* subprocess.run(cmd, text=True, capture_output=True, check=False) *)
RunTshark ==
    /\ pc = "start"
    /\ \E outcome \in CaptureOutcomes(RawStdout) : result' = outcome
    /\ pc' = "parse"
    /\ UNCHANGED <<StoreVars, DbVars, TrackerVars, ReaderVars, instance, clock,
                   window_start, window, cycles, appended, observed, LOCAL_IPS, db_stats_pc, db_stats,
                   capture_threads, capture_failed, db_failed>>

(* the rest of run_capture, up to its return to capture_loop *)
ParseOutput ==
    /\ pc = "parse"
    /\ LET captured == run_capture([result EXCEPT !.lines = LinesOf(@)])
       IN /\ observed' = Append(observed, captured.packets)
          /\ pc' = IF captured.escaped THEN "crashed" ELSE "captured"
    /\ UNCHANGED <<StoreVars, DbVars, TrackerVars, ReaderVars, instance, clock,
                   window_start, window, cycles, appended, result, LOCAL_IPS, db_stats_pc, db_stats,
                   capture_threads, capture_failed, db_failed>>

NextCapture == RunTshark \/ ParseOutput

SpecCapture == InitStore /\ [][NextCapture]_vars

(* ------------------------------------------------------------------ *)
(* SpecThreads: start_capture_thread called again. Each call starts a  *)
(* thread that runs capture_loop on the same module globals; the steps *)
(* of a later thread are taken statement by statement                  *)
(* ------------------------------------------------------------------ *)
ThreadVars == <<LOCAL_IPS, db_stats_pc, db_stats, result, instance, clock, pc, window_start,
                window, cycles,
                observed, capture_failed, db_failed>>

ThreadIds == 1..Len(capture_threads)

(* threading.Thread(target=capture_loop, daemon=True).start() *)
start_capture_thread ==
    /\ Len(capture_threads) < MaxThreads - 1
    /\ capture_threads' = Append(capture_threads,
           [pc |-> "start", windows |-> 0, window_start |-> None, packets |-> <<>>,
            previous |-> {}, window |-> None])
    /\ UNCHANGED <<StoreVars, DbVars, TrackerVars, ReaderVars, ThreadVars, appended>>

(* window_start = now; packets = run_capture() *)
ThreadCapture ==
  \E t \in ThreadIds :
    /\ capture_threads[t].pc = "start"
    /\ capture_threads[t].windows < MaxThreadWindows
    /\ \E outcome \in CaptureOutcomes(PeerStdout) :
         capture_threads' = [capture_threads EXCEPT ![t] =
             [@ EXCEPT !.pc = "churn_read", !.window_start = clock,
                       !.packets = run_capture(outcome).packets]]
    /\ UNCHANGED <<StoreVars, DbVars, TrackerVars, ReaderVars, ThreadVars, appended>>

(* new_peers and expired_peers: the reads of PREVIOUS_PEERS *)
ThreadChurnRead ==
  \E t \in ThreadIds :
    /\ capture_threads[t].pc = "churn_read"
    /\ capture_threads' = [capture_threads EXCEPT ![t] =
           [@ EXCEPT !.pc = "churn_write", !.previous = PREVIOUS_PEERS]]
    /\ UNCHANGED <<StoreVars, DbVars, TrackerVars, ReaderVars, ThreadVars, appended>>

(* PREVIOUS_PEERS = current_peers *)
ThreadChurnWrite ==
  \E t \in ThreadIds :
    /\ capture_threads[t].pc = "churn_write"
    /\ PREVIOUS_PEERS' = CurrentPeers(capture_threads[t].packets)
    /\ capture_threads' = [capture_threads EXCEPT ![t] = [@ EXCEPT !.pc = "track"]]
    /\ UNCHANGED <<StoreVars, DbVars, peers, emitted, ReaderVars, ThreadVars, appended>>

(* NODE_TRACKER.update_for_window, get_candidates, the window dict *)
ThreadTrack ==
  \E t \in ThreadIds :
    /\ capture_threads[t].pc = "track"
    /\ LET packets == capture_threads[t].packets
           in_b == window_in_bytes_by_ip(packets)
           out_b == window_out_bytes_by_ip(packets)
           in_p == window_in_packets_by_ip(packets)
           out_p == window_out_packets_by_ip(packets)
       IN \E order \in Perms(AllIps(in_b, out_b, in_p, out_p)) :
            LET tracked == update_for_window(peers, clock, in_b, out_b, in_p, out_p, order)
            IN /\ peers' = tracked
               /\ emitted' = emitted \cup EmittedBy(
                      RankedPeers(tracked, clock, DefaultMinScore, CANDIDATE_LIMIT))
               /\ capture_threads' = [capture_threads EXCEPT ![t] =
                      [@ EXCEPT !.pc = "add",
                                !.window = BuildWindow(capture_threads[t].window_start, packets,
                                    capture_threads[t].previous,
                                    get_candidates(tracked, clock, DefaultMinScore,
                                                   CANDIDATE_LIMIT))]]
    /\ UNCHANGED <<StoreVars, DbVars, PREVIOUS_PEERS, ReaderVars, ThreadVars, appended>>

(* add_window(window), its lock block in one step; save_window_to_db   *)
(* returns at once without a connection; back to the top of the loop   *)
ThreadAddWindow ==
  \E t \in ThreadIds :
    /\ capture_threads[t].pc = "add"
    /\ metrics_lock = None
    /\ metrics_history' = DequeAppend(metrics_history, capture_threads[t].window)
    /\ latest_top_peers' = capture_threads[t].window.top_peers
    /\ latest_node_candidates' = capture_threads[t].window.node_candidates
    /\ appended' = Append(appended, capture_threads[t].window)
    /\ capture_threads' = [capture_threads EXCEPT ![t] =
           [@ EXCEPT !.pc = "start", !.windows = @ + 1]]
    /\ UNCHANGED <<metrics_lock, DbVars, TrackerVars, ReaderVars, ThreadVars>>

CaptureStepThreads == CaptureWindow(PeerStdout, SteadyClock, MaxThreadWindows)

NextThreads ==
    \/ CaptureStepThreads
    \/ AddWindowEnter
    \/ AddWindowAppend
    \/ AddWindowTop
    \/ AddWindowNodes
    \/ SaveSkipped
    \/ Sleep
    \/ start_capture_thread
    \/ ThreadCapture
    \/ ThreadChurnRead
    \/ ThreadChurnWrite
    \/ ThreadTrack
    \/ ThreadAddWindow

SpecThreads == InitStore /\ [][NextThreads]_vars

(* ------------------------------------------------------------------ *)
(* SpecDbStats: the capture thread over a database file written under  *)
(* the same DB_MAX_ROWS, and a request thread calling get_db_stats on  *)
(* the same connection                                                 *)
(* ------------------------------------------------------------------ *)
InitDbStats ==
    /\ InitMemory
    /\ LOCAL_IPS = HostIps
    /\ db_conn = TRUE
    /\ \E n \in 0..DB_MAX_ROWS :
         /\ db_rows = OldRows(n)
         /\ db_seq = n
         /\ db_durable = [rows |-> OldRows(n), seq |-> n]

StatsUnchanged ==
    UNCHANGED <<StoreVars, db_conn, db_rows, db_seq, db_durable, TrackerVars, ReaderVars,
                LOCAL_IPS, result, capture_threads, instance, clock, pc, window_start,
                window, cycles, appended, observed, capture_failed, db_failed>>

(* "with db_lock:" entered by the get_db_stats caller *)
StatsEnter ==
    /\ db_stats_pc = "idle"
    /\ db_conn
    /\ db_lock = None
    /\ db_lock' = "stats"
    /\ db_stats_pc' = "query"
    /\ db_stats' = db_stats
    /\ StatsUnchanged

(* SELECT of the row count, MIN(ts_utc), MAX(ts_utc): over the rows as *)
(* the shared connection sees them, its uncommitted changes included   *)
StatsQuery ==
    /\ db_stats_pc = "query"
    /\ LET stamps == {db_rows[i].ts_utc : i \in 1..Len(db_rows)}
       IN db_stats' =
            [count  |-> Len(db_rows),
             oldest |-> IF stamps = {} THEN <<>>
                        ELSE <<CHOOSE x \in stamps : \A y \in stamps : x <= y>>,
             newest |-> IF stamps = {} THEN <<>>
                        ELSE <<CHOOSE x \in stamps : \A y \in stamps : x >= y>>]
    /\ db_lock' = None
    /\ db_stats_pc' = "returned"
    /\ StatsUnchanged

(* the caller is done with the result; the next request may come *)
StatsDone ==
    /\ db_stats_pc = "returned"
    /\ db_stats_pc' = "idle"
    /\ db_stats' = None
    /\ db_lock' = db_lock
    /\ StatsUnchanged

NextDbStats ==
    \/ CaptureStepDb
    \/ AddWindowEnter
    \/ AddWindowAppend
    \/ AddWindowTop
    \/ AddWindowNodes
    \/ SaveEnter
    \/ SaveInsert
    \/ SaveTrim
    \/ SaveCommit
    \/ Sleep
    \/ StatsEnter
    \/ StatsQuery
    \/ StatsDone

SpecDbStats == InitDbStats /\ [][NextDbStats]_vars

(* FairSpec: Spec with the capture thread kept running *)
FairSpec == Spec /\ WF_pc(Next)

(* ================================================================== *)
(* Properties                                                          *)
(* ================================================================== *)
Last(s) == s[Len(s)]

(* C1 (SpecStore): the history never holds more than MAX_POINTS         *)
(* records and is exactly the last min(n, MAX_POINTS) of the n windows  *)
(* appended so far, in append order.                                    *)
C1_HistoryIsLastAppended ==
    /\ Len(metrics_history) <= MAX_POINTS
    /\ Len(metrics_history) = Min(Len(appended), MAX_POINTS)
    /\ \A i \in 1..Len(metrics_history) :
         metrics_history[i] = appended[Len(appended) - Len(metrics_history) + i]

(* an append to a full history has evicted the oldest record *)
C1_Witness ==
    /\ Len(appended) = MAX_POINTS + 1
    /\ Len(metrics_history) = MAX_POINTS
    /\ appended[1] \notin Range(metrics_history)
    /\ Last(metrics_history) = Last(appended)

(* C2 (SpecStore): every snapshot returned while add_window runs in the *)
(* capture thread is consistent: with a non-empty history, the latest   *)
(* lists are those of the last record of the same history.              *)
C2_SnapshotConsistent ==
    (snap_pc = "returned" /\ snap.history # <<>>) =>
        /\ snap.top = Last(snap.history).top_peers
        /\ snap.nodes = Last(snap.history).node_candidates

(* a snapshot of two windows with different candidates is held while   *)
(* the writer is in the middle of appending the next window            *)
C2_Witness ==
    /\ snap_pc = "returned"
    /\ Len(snap.history) = 2
    /\ snap.nodes # <<>>
    /\ snap.history[1].node_candidates # snap.nodes
    /\ pc = "add_top"

(* the strings reachable through a snapshot *)
TopTexts(tp) == {tp[i].ip : i \in 1..Len(tp)}
CandidateTexts(cs) == UNION {{cs[i].id, cs[i].ip_hash} : i \in 1..Len(cs)}
WindowTexts(w) == TopTexts(w.top_peers) \cup CandidateTexts(w.node_candidates)
SnapshotTexts(sn) ==
    UNION {WindowTexts(sn.history[i]) : i \in 1..Len(sn.history)}
      \cup TopTexts(sn.top) \cup CandidateTexts(sn.nodes)

(* C3 (SpecStore): no value reachable through a returned snapshot       *)
(* contains the raw address of a remote peer.                           *)
C3_NoRawIpInSnapshot ==
    snap_pc = "returned" =>
        \A ip \in RemoteIps : \A t \in SnapshotTexts(snap) : ~Contains(t, ip)

CandidateFields ==
    {"id", "ip_hash", "score", "lifetime_sec", "windows_seen",
     "in_bytes", "out_bytes", "in_packets", "out_packets"}

(* C4 (Spec): in every tracker state, for every min_score and limit, a  *)
(* candidate returned by get_candidates has exactly the nine documented *)
(* fields, its id and ip_hash are the digest-derived labels of a        *)
(* tracked peer, and neither contains the address of any tracked peer.  *)
C4_NoRawIpInCandidates ==
    \A min_score \in {0, DefaultMinScore} : \A limit \in 0..Len(peers) :
        LET cs == get_candidates(peers, clock, min_score, limit)
        IN \A i \in 1..Len(cs) :
             /\ DOMAIN cs[i] = CandidateFields
             /\ \A j \in 1..Len(peers) :
                  /\ ~Contains(cs[i].id, peers[j].ip)
                  /\ ~Contains(cs[i].ip_hash, peers[j].ip)
             /\ \E j \in 1..Len(peers) :
                  /\ cs[i].ip_hash = Sha256Hex(peers[j].ip)
                  /\ cs[i].id = "node-" \o SubSeq(Sha256Hex(peers[j].ip), 1, 8)

(* the capture loop has emitted a candidate for a tracked peer *)
C4_Witness ==
    /\ cycles > 0
    /\ pc = "add_window"
    /\ window.node_candidates # <<>>
    /\ \E j \in 1..Len(peers) :
         window.node_candidates[1].ip_hash = Sha256Hex(peers[j].ip)

(* C5 (SpecRestart): whatever the window and the process run, the same  *)
(* address is emitted with the same ip_hash and the same id, and the id *)
(* is "node-" followed by the first 8 characters of the ip_hash.        *)
C5_HashDeterministic ==
    /\ \A e1, e2 \in emitted :
         e1.ip = e2.ip => (e1.ip_hash = e2.ip_hash /\ e1.id = e2.id)
    /\ \A e \in emitted :
         /\ Len(e.ip_hash) = 64
         /\ e.id = "node-" \o SubSeq(e.ip_hash, 1, 8)

(* one address was emitted by two runs of the process *)
C5_Witness ==
    \E e1, e2 \in emitted : e1.ip = e2.ip /\ e1.instance # e2.instance

(* C6 (SpecStore): a health result has status "cold" exactly when its   *)
(* points is 0, and its points, last_ts, last_packets and status all    *)
(* describe the store as it was after some k appends: points is         *)
(* min(k, MAX_POINTS) and, for k > 0, the status is "idle" exactly when *)
(* the k-th appended window has total_packets = 0, "ok" otherwise.      *)
C6_HealthStatus ==
    health_pc = "returned" =>
        /\ (health.status = "cold") <=> (health.points = 0)
        /\ \E k \in 0..Len(appended) :
             /\ health.points = Min(k, MAX_POINTS)
             /\ IF k = 0
                THEN health.status = "cold"
                ELSE /\ health.status # "cold"
                     /\ health.last_ts = appended[k].ts
                     /\ health.last_packets = appended[k].total_packets
                     /\ health.status =
                            IF appended[k].total_packets = 0 THEN "idle" ELSE "ok"

(* an "idle" result on a full history is held while the writer is in   *)
(* the middle of appending the next window                             *)
C6_Witness ==
    /\ health_pc = "returned"
    /\ health.status = "idle"
    /\ health.points = MAX_POINTS
    /\ pc = "add_top"

ZeroTraffic(w) ==
    /\ w.total_packets = 0 /\ w.total_bytes = 0
    /\ w.in_bytes = 0 /\ w.out_bytes = 0
    /\ w.in_packets = 0 /\ w.out_packets = 0
    /\ w.unique_peers = 0 /\ w.new_peers = 0
    /\ w.top_peers = <<>>

(* C7 (Spec): in a cycle whose subprocess.run raised, the loop is not   *)
(* ended; the window built has zero traffic totals, zero directional    *)
(* counters, zero unique and new peers and no top peers; once the       *)
(* append is done it is the newest record of the history.               *)
C7_CaptureFailureTolerated ==
    capture_failed =>
        /\ pc # "crashed"
        /\ ZeroTraffic(window)
        /\ pc \in {"save", "db_insert", "db_trim", "db_commit", "sleep", "start"} =>
             /\ Last(appended) = window
             /\ Last(metrics_history) = window

(* C8 (Spec): a save_window_to_db that raises does not end the loop.    *)
C8_LoopSurvivesStorageFailure ==
    db_failed # <<>> => pc # "crashed"

(* C9 (Spec): every row of the table is the row of a window already     *)
(* appended to the history; whenever save_window_to_db is at work or    *)
(* has raised, its window is the newest record of the history.          *)
C9_MemoryBeforeDurable ==
    /\ \A i \in 1..Len(db_rows) :
         \E j \in 1..Len(appended) : db_rows[i] = RowOf(db_rows[i].id, appended[j])
    /\ pc \in {"db_insert", "db_trim", "db_commit"} =>
         (metrics_history # <<>> /\ Last(metrics_history) = window)
    /\ db_failed # <<>> =>
         (metrics_history # <<>> /\ Last(metrics_history).ts = db_failed[1])

(* the save of the second window raised and the window is in memory *)
C9_Witness ==
    /\ db_failed # <<>>
    /\ pc = "crashed"
    /\ Len(appended) = 2
    /\ Len(db_rows) >= 1

RowIds(rows) == {rows[i].id : i \in 1..Len(rows)}

C10_AfterSave ==
    pc = "sleep" =>
        /\ Len(db_rows) = Min(db_seq, DB_MAX_ROWS)
        /\ RowIds(db_rows) = (db_seq - Len(db_rows) + 1)..db_seq

C10_TrimStep ==
    (pc = "db_trim" /\ pc' = "db_commit") =>
        LET deleted == RowIds(db_rows) \ RowIds(db_rows')
        IN /\ Cardinality(deleted) = Max(0, Len(db_rows) - DB_MAX_ROWS)
           /\ RowIds(db_rows') \subseteq RowIds(db_rows)
           /\ \A d \in deleted : \A k \in RowIds(db_rows') : d < k

(* C10 (SpecDb): after every completed save the table holds at most     *)
(* DB_MAX_ROWS rows, which are the most recently inserted ones; a trim  *)
(* deletes exactly count - DB_MAX_ROWS rows, those with the smallest    *)
(* ids.                                                                 *)
C10_RetentionKeepsNewest ==
    /\ []C10_AfterSave
    /\ [][C10_TrimStep]_vars

(* the first save found the table over the cap by more than one row    *)
(* and left the DB_MAX_ROWS newest                                     *)
C10_Witness ==
    /\ pc = "sleep"
    /\ cycles = 1
    /\ db_seq = MaxInitRows + 1
    /\ Len(db_rows) = DB_MAX_ROWS
    /\ db_rows[1].id = db_seq - DB_MAX_ROWS + 1

(* what the observations of a cycle say, in the words of the packets   *)
(* alone                                                               *)
Sources(ps) == {ps[i].src : i \in 1..Len(ps)}
BytesFrom(ps, ip) == SumSeq([i \in 1..Len(ps) |-> IF ps[i].src = ip THEN ps[i].len ELSE 0])
PacketsFrom(ps, ip) == Cardinality({i \in 1..Len(ps) : ps[i].src = ip})
FirstAt(ps, ip) == CHOOSE i \in 1..Len(ps) : ps[i].src = ip /\ \A j \in 1..(i - 1) : ps[j].src # ip
PreviousSources == IF Len(observed) > 1 THEN Sources(observed[Len(observed) - 1]) ELSE {}

(* C11 (SpecWindow): the window built in a cycle has new_peers =        *)
(* |current \ previous| and expired_peers = |previous \ current|, where *)
(* current is the set of source addresses of the cycle's packets and    *)
(* previous that of the cycle before (empty in the first cycle), and    *)
(* PREVIOUS_PEERS is left equal to current; so the first window has     *)
(* new_peers = unique_peers and expired_peers = 0, a window with the    *)
(* peer set of its predecessor has 0 and 0, and neither is negative.    *)
C11_ChurnCounters ==
    observed # <<>> =>
        LET current == Sources(Last(observed))
            previous == PreviousSources
        IN /\ window.new_peers = Cardinality(current \ previous)
           /\ window.expired_peers = Cardinality(previous \ current)
           /\ PREVIOUS_PEERS = current
           /\ Len(observed) = 1 =>
                (window.new_peers = window.unique_peers /\ window.expired_peers = 0)
           /\ (Len(observed) > 1 /\ current = previous) =>
                (window.new_peers = 0 /\ window.expired_peers = 0)
           /\ window.new_peers >= 0
           /\ window.expired_peers >= 0

(* a second window in which one peer is new and one has expired *)
C11_Witness ==
    /\ Len(observed) = 2
    /\ Sources(observed[1]) = {RemoteA}
    /\ Sources(observed[2]) = {LocalIp}
    /\ window.new_peers = 1
    /\ window.expired_peers = 1

(* C12 (SpecWindow): in every window in_bytes + out_bytes <=            *)
(* total_bytes (and the same for packets), with equality when every     *)
(* packet has an end in LOCAL_IPS; a packet counts as outbound exactly  *)
(* when its source is local and as inbound exactly when its source is   *)
(* not local and its destination is, so never in both directions.       *)
C12_DirectionTotals ==
    observed # <<>> =>
        LET ps == Last(observed)
            Out(i) == ps[i].src \in LOCAL_IPS
            In(i) == ps[i].src \notin LOCAL_IPS /\ ps[i].dst \in LOCAL_IPS
        IN /\ window.in_bytes + window.out_bytes <= window.total_bytes
           /\ window.in_packets + window.out_packets <= window.total_packets
           /\ (\A i \in 1..Len(ps) : ps[i].src \in LOCAL_IPS \/ ps[i].dst \in LOCAL_IPS) =>
                /\ window.in_bytes + window.out_bytes = window.total_bytes
                /\ window.in_packets + window.out_packets = window.total_packets
           /\ window.out_bytes = SumSeq([i \in 1..Len(ps) |-> IF Out(i) THEN ps[i].len ELSE 0])
           /\ window.in_bytes = SumSeq([i \in 1..Len(ps) |-> IF In(i) THEN ps[i].len ELSE 0])
           /\ window.out_packets = Cardinality({i \in 1..Len(ps) : Out(i)})
           /\ window.in_packets = Cardinality({i \in 1..Len(ps) : In(i)})

(* a window with a packet whose two ends are local, counted as         *)
(* outbound only                                                       *)
C12_Witness ==
    /\ observed # <<>>
    /\ LOCAL_IPS = {LocalIp, RemoteA}
    /\ Last(observed) = <<[src |-> RemoteA, dst |-> LocalIp, len |-> 1],
                          [src |-> LocalIp, dst |-> RemoteB, len |-> 2]>>
    /\ window.in_bytes = 0
    /\ window.out_bytes = 3
    /\ window.total_bytes = 3

(* C13 (SpecWindow): whatever LOCAL_IPS is, the window has total_bytes  *)
(* equal to the sum of the lengths of the cycle's packets and           *)
(* total_packets equal to their number.                                 *)
C13_Totals ==
    observed # <<>> =>
        LET ps == Last(observed)
        IN /\ window.total_bytes = SumSeq([i \in 1..Len(ps) |-> ps[i].len])
           /\ window.total_packets = Len(ps)

(* two packets of which only one is classified *)
C13_Witness ==
    /\ observed # <<>>
    /\ Len(Last(observed)) = 2
    /\ window.total_bytes = 3
    /\ window.total_packets = 2
    /\ window.in_bytes + window.out_bytes = 2
    /\ window.in_packets + window.out_packets = 1

(* C14 (SpecWindow): on every host, whatever its LOCAL_IPS,             *)
(* unique_peers is the number of distinct source addresses of the       *)
(* cycle's packets; top_peers lists the min(TOP_TALKERS, unique_peers)  *)
(* sources with the most bytes, each with its own byte and packet       *)
(* count, most bytes first and equal bytes in order of first            *)
(* appearance; the churn counters are those of the source sets of this  *)
(* cycle and the one before.                                            *)
C14_PeersIndependentOfLocalIps ==
    observed # <<>> =>
        LET ps == Last(observed)
            top == window.top_peers
            listed == {top[i].ip : i \in 1..Len(top)}
        IN /\ window.unique_peers = Cardinality(Sources(ps))
           /\ Len(top) = Min(TOP_TALKERS, Cardinality(Sources(ps)))
           /\ listed \subseteq Sources(ps)
           /\ Cardinality(listed) = Len(top)
           /\ \A i \in 1..Len(top) :
                /\ top[i].bytes = BytesFrom(ps, top[i].ip)
                /\ top[i].packets = PacketsFrom(ps, top[i].ip)
           /\ \A i, j \in 1..Len(top) :
                i < j => \/ top[i].bytes > top[j].bytes
                         \/ /\ top[i].bytes = top[j].bytes
                            /\ FirstAt(ps, top[i].ip) < FirstAt(ps, top[j].ip)
           /\ \A ip \in Sources(ps) \ listed : \A i \in 1..Len(top) :
                BytesFrom(ps, ip) <= top[i].bytes
           /\ window.new_peers = Cardinality(Sources(ps) \ PreviousSources)
           /\ window.expired_peers = Cardinality(PreviousSources \ Sources(ps))

(* on a host where no packet is classified, a second window still has  *)
(* its two peers, ranked, and its churn                                *)
C14_Witness ==
    /\ LOCAL_IPS = {}
    /\ Len(observed) = 2
    /\ Len(observed[1]) = 1
    /\ window.in_packets + window.out_packets = 0
    /\ window.unique_peers = 2
    /\ window.new_peers = 1
    /\ window.top_peers[1].ip = LocalIp

(* the peer states that differ from p in one quantity only, which is   *)
(* larger by one: windows_seen, the lifetime (a later last_seen or an  *)
(* earlier first_seen), one cumulative byte or packet counter          *)
Grown(p) ==
    {[p EXCEPT !.windows_seen = @ + 1],
     [p EXCEPT !.last_seen = @ + 1],
     [p EXCEPT !.first_seen = @ - 1],
     [p EXCEPT !.in_bytes_total = @ + 1],
     [p EXCEPT !.out_bytes_total = @ + 1],
     [p EXCEPT !.in_packets_total = @ + 1],
     [p EXCEPT !.out_packets_total = @ + 1]}

HashesOf(cs) == {cs[i].ip_hash : i \in 1..Len(cs)}

(* C15 (SpecTracker): whatever the lifetime and the byte and packet     *)
(* totals of a tracked peer are, _score_peer is 0 for that peer with    *)
(* windows_seen 0 or 1; and a tracked peer with windows_seen < 2 is not *)
(* in the list get_candidates returns with the default min_score.       *)
C15_EphemeralPeerScoresZero ==
    \A i \in 1..Len(peers) :
        /\ \A w \in {0, 1} :
             _score_peer([peers[i] EXCEPT !.windows_seen = w], clock) = 0
        /\ peers[i].windows_seen < 2 =>
             Sha256Hex(peers[i].ip) \notin
                 HashesOf(get_candidates(peers, clock, DefaultMinScore, CANDIDATE_LIMIT))

(* a peer just seen for the first time, with traffic in both           *)
(* directions at the thresholds, scores 0 and is not listed            *)
C15_Witness ==
    /\ Len(peers) = 1
    /\ peers[1].windows_seen = 1
    /\ peers[1].in_bytes_total + peers[1].out_bytes_total = MIN_BYTES
    /\ peers[1].in_packets_total + peers[1].out_packets_total = MIN_PACKETS
    /\ _score_peer(peers[1], clock) = 0
    /\ get_candidates(peers, clock, DefaultMinScore, CANDIDATE_LIMIT) = <<>>

(* C16 (SpecTracker): for every tracked peer state p and every state q  *)
(* that differs from p in one quantity only, larger in q, the score of  *)
(* q is at least the score of p.                                        *)
C16_ScoreMonotone ==
    \A i \in 1..Len(peers) : \A q \in Grown(peers[i]) :
        _score_peer(q, clock) >= _score_peer(peers[i], clock)

(* a peer seen twice, one byte short of MIN_BYTES and with nothing    *)
(* sent to it yet: one more inbound byte takes it across the traffic  *)
(* gate, one outbound byte across both gates, and the score grows     *)
C16_Witness ==
    /\ Len(peers) = 1
    /\ peers[1].windows_seen >= 2
    /\ peers[1].in_bytes_total = MIN_BYTES - 1
    /\ peers[1].out_bytes_total = 0
    /\ peers[1].in_packets_total > 0
    /\ peers[1].out_packets_total > 0
    /\ peers[1].in_packets_total + peers[1].out_packets_total >= MIN_PACKETS
    /\ _score_peer([peers[1] EXCEPT !.in_bytes_total = @ + 1], clock)
         > _score_peer(peers[1], clock)
    /\ _score_peer([peers[1] EXCEPT !.out_bytes_total = @ + 1], clock)
         > _score_peer([peers[1] EXCEPT !.in_bytes_total = @ + 1], clock)

(* C17 (SpecTracker): for every peer state update_for_window can        *)
(* produce, a last_seen earlier than first_seen included, _score_peer   *)
(* is in [0, 1], and every score in a list returned by get_candidates   *)
(* is in [0, 1] (0 to 1000 thousandths).                                *)
C17_ScoreInUnitInterval ==
    /\ \A i \in 1..Len(peers) :
         /\ _score_peer(peers[i], clock) >= 0
         /\ _score_peer(peers[i], clock) <= ScoreUnit
    /\ LET cs == get_candidates(peers, clock, 0, Len(peers))
       IN /\ Len(cs) = Len(peers)
          /\ \A i \in 1..Len(cs) : cs[i].score >= 0 /\ cs[i].score <= 1000

(* a peer seen twice whose last_seen is earlier than its first_seen *)
C17_Witness ==
    /\ Len(peers) = 1
    /\ peers[1].windows_seen >= 2
    /\ peers[1].last_seen < peers[1].first_seen - MIN_LIFETIME_SEC
    /\ peers[1].in_bytes_total + peers[1].out_bytes_total = 0
    /\ _score_peer(peers[1], clock) > 0

(* the values of min_score tried: none, below, at and above the        *)
(* default, and the maximum                                            *)
MinScores == {0, DefaultMinScore - 1, DefaultMinScore, DefaultMinScore + 1, ScoreUnit}

(* C18 (SpecWindow): for every min_score of MinScores and every limit   *)
(* from 0 to one more than the number of tracked peers, get_candidates  *)
(* returns at most limit records; each is the record of a tracked peer  *)
(* whose score is >= min_score; the scores are non-increasing along the *)
(* list; and no tracked peer with score >= min_score that is left out   *)
(* has a score strictly higher than a peer that is returned.            *)
C18_CandidatesRanked ==
    \A min_score \in MinScores : \A limit \in 0..(Len(peers) + 1) :
        LET cs == get_candidates(peers, clock, min_score, limit)
            Score(i) == _score_peer(peers[i], clock)
            Owner(k) == CHOOSE i \in 1..Len(peers) : cs[k].ip_hash = Sha256Hex(peers[i].ip)
        IN /\ Len(cs) <= limit
           /\ \A k \in 1..Len(cs) :
                \E i \in 1..Len(peers) :
                    /\ cs[k] = CandidateOf(Score(i), peers[i])
                    /\ Score(i) >= min_score
           /\ \A k \in 1..(Len(cs) - 1) :
                /\ cs[k].score >= cs[k + 1].score
                /\ Score(Owner(k)) >= Score(Owner(k + 1))
           /\ \A i \in 1..Len(peers) :
                (Score(i) >= min_score /\ Sha256Hex(peers[i].ip) \notin HashesOf(cs))
                    => \A k \in 1..Len(cs) : Score(i) <= Score(Owner(k))

(* two tracked peers, the later one with the higher score: the filter  *)
(* of the default min_score drops the first, and with no filter a      *)
(* limit of 1 keeps the second only while both are ranked second first *)
C18_Witness ==
    /\ Len(peers) = 2
    /\ _score_peer(peers[1], clock) < DefaultMinScore
    /\ _score_peer(peers[2], clock) >= DefaultMinScore
    /\ get_candidates(peers, clock, DefaultMinScore, CANDIDATE_LIMIT)
         = <<CandidateOf(_score_peer(peers[2], clock), peers[2])>>
    /\ get_candidates(peers, clock, 0, 1)
         = <<CandidateOf(_score_peer(peers[2], clock), peers[2])>>
    /\ get_candidates(peers, clock, 0, 2)
         = <<CandidateOf(_score_peer(peers[2], clock), peers[2]),
             CandidateOf(_score_peer(peers[1], clock), peers[1])>>

(* the pass of the loop that begins: run_capture is entered *)
CaptureBegins == cycles' = cycles + 1

(* C19 (SpecDb): the pause after a cycle is max(0, INTERVAL_SECONDS -   *)
(* elapsed): after a cycle of at most INTERVAL_SECONDS the loop is back *)
(* at its top INTERVAL_SECONDS after window_start, after a longer one   *)
(* with no pause; the next window starts at that moment; and a capture  *)
(* begins only at the top of the loop, when the record of the cycle     *)
(* before it is the last one appended to the store and the last row     *)
(* committed to the database, with the database lock released.          *)
C19_Paced ==
    [][/\ (pc = "sleep" /\ pc' = "start") =>
            LET elapsed == clock - window_start
            IN /\ clock' - clock = Max(0, INTERVAL_SECONDS - elapsed)
               /\ elapsed <= INTERVAL_SECONDS => clock' = window_start + INTERVAL_SECONDS
               /\ elapsed > INTERVAL_SECONDS => clock' = clock
       /\ CaptureBegins =>
            /\ pc = "start"
            /\ window_start' = clock
            /\ cycles > 0 =>
                 /\ window_start' >= window_start + INTERVAL_SECONDS
                 /\ Len(appended) = cycles
                 /\ Last(appended) = window
                 /\ Last(metrics_history) = window
                 /\ db_lock = None
                 /\ db_rows = db_durable.rows
                 /\ Last(db_durable.rows) = RowOf(db_seq, window)
    ]_vars

(* three cycles done: the second window started INTERVAL_SECONDS after *)
(* the first, whose capture was short; the third started later than    *)
(* that after the second, whose capture overran; and the third took    *)
(* INTERVAL_SECONDS exactly, so the loop is back at its top with no    *)
(* pause                                                               *)
C19_Witness ==
    /\ pc = "start"
    /\ cycles = 3
    /\ Len(appended) = 3
    /\ appended[2].ts = appended[1].ts + INTERVAL_SECONDS
    /\ appended[3].ts > appended[2].ts + INTERVAL_SECONDS
    /\ clock = window_start + INTERVAL_SECONDS
    /\ Last(db_durable.rows) = RowOf(db_seq, window)

(* C20 (SpecAlias): whatever a caller of get_metrics_snapshot does to   *)
(* the history it was given, to a window record in it or to the latest  *)
(* lists, the store keeps the records and lists add_window put there:   *)
(* the history is the last windows appended, unchanged, the latest      *)
(* lists are those of a window appended, and a health result reports    *)
(* the packets and bytes of a window as appended.                       *)
C20_SnapshotIsCopy ==
    /\ Range(metrics_history) \subseteq Range(appended)
    /\ latest_top_peers # <<>> =>
         \E i \in 1..Len(appended) : latest_top_peers = appended[i].top_peers
    /\ latest_node_candidates # <<>> =>
         \E i \in 1..Len(appended) : latest_node_candidates = appended[i].node_candidates
    /\ (health_pc = "returned" /\ health.status # "cold") =>
         \E i \in 1..Len(appended) :
             /\ health.last_ts = appended[i].ts
             /\ health.last_packets = appended[i].total_packets
             /\ health.last_bytes = appended[i].total_bytes

(* C21 (SpecCapture): when tshark returned with a return code other     *)
(* than 0, run_capture returns no observation, whatever tshark printed. *)
C21_NonZeroExitIsEmpty ==
    (pc = "captured" /\ ~result.raised /\ result.returncode # 0)
        => Last(observed) = <<>>

(* a line the parse loop has no reason to skip: not blank, not a       *)
(* banner or "packets captured" line, three parts or more, the third   *)
(* an integer                                                          *)
WellFormed(parts) ==
    /\ parts # <<>>
    /\ ~StartsWith(parts, <<"Running", "as", "user">>)
    /\ ~StartsWith(parts, <<"Capturing", "on">>)
    /\ ~Contains(parts, <<"packets", "captured">>)
    /\ Len(parts) >= 3
    /\ parts[3] \in IntStrings

(* C29 (SpecCapture): when tshark returned, run_capture returns, with   *)
(* no exception, one observation for each well-formed line of stdout,   *)
(* in the order of the lines, and nothing for the other lines, wherever *)
(* they stand in the output.                                            *)
C29_MalformedLinesSkipped ==
    (pc \in {"captured", "crashed"} /\ ~result.raised) =>
        LET good == SelectSeq(result.lines, WellFormed)
        IN /\ pc = "captured"
           /\ Last(observed) =
                [i \in 1..Len(good) |->
                    [src |-> good[i][1], dst |-> good[i][2], len |-> IntOf(good[i][3])]]

(* a line with a length that is no integer between two well-formed     *)
(* lines: both are returned, in their order                            *)
C29_Witness ==
    /\ pc = "captured"
    /\ ~result.raised
    /\ result.lines = <<<<LocalIp, RemoteB, "2", "x">>,
                        <<RemoteA, LocalIp, "abc">>,
                        <<RemoteA, LocalIp, "1">>>>
    /\ Last(observed) = <<[src |-> LocalIp, dst |-> RemoteB, len |-> 2],
                          [src |-> RemoteA, dst |-> LocalIp, len |-> 1]>>

(* the capture_loop threads that have read or written PREVIOUS_PEERS   *)
(* or the tracker for a window and have not yet left its add_window    *)
InWindow ==
    {t \in ThreadIds : capture_threads[t].pc \in {"churn_write", "track", "add"}}
        \cup (IF pc \in {"add_window", "add_append", "add_top", "add_nodes"}
              THEN {0} ELSE {})

(* C22 (SpecThreads): however often start_capture_thread is called, at  *)
(* most one capture loop is at any time between its read of             *)
(* PREVIOUS_PEERS for a window and the end of add_window for it.        *)
C22_SingleProducer == Cardinality(InWindow) <= 1

(* C23 (SpecDbStats): insert, count and trim are one unit for every     *)
(* other user of the connection: a get_db_stats call that runs while    *)
(* windows are saved never reports more than DB_MAX_ROWS rows.          *)
C23_TrimAtomic ==
    db_stats_pc = "returned" => db_stats.count <= DB_MAX_ROWS

(* C24 (SpecWindow): whatever was observed, no key of the four          *)
(* directional maps of a window and no address the tracker holds is an  *)
(* address of the local set.                                            *)
C24_TrackedPeersAreRemote ==
    /\ \A i \in 1..Len(peers) : peers[i].ip \notin LOCAL_IPS
    /\ observed # <<>> =>
         LET packets == Last(observed)
         IN AllIps(window_in_bytes_by_ip(packets), window_out_bytes_by_ip(packets),
                   window_in_packets_by_ip(packets), window_out_packets_by_ip(packets))
              \cap LOCAL_IPS = {}

(* the tracked peer with address ip *)
PeerOf(ps, ip) == ps[PeerIndex(ps, ip)]

(* q is p after one visit at time now with the window's four maps *)
Visited(p, q, now, in_b, out_b, in_p, out_p) ==
    /\ q.ip = p.ip
    /\ q.first_seen = p.first_seen
    /\ q.last_seen = now
    /\ q.windows_seen = p.windows_seen + 1
    /\ q.in_bytes_total = p.in_bytes_total + GetOr0(in_b, p.ip)
    /\ q.out_bytes_total = p.out_bytes_total + GetOr0(out_b, p.ip)
    /\ q.in_packets_total = p.in_packets_total + GetOr0(in_p, p.ip)
    /\ q.out_packets_total = p.out_packets_total + GetOr0(out_p, p.ip)

(* q is the entry created at time now with the window's four maps *)
Created(q, now, in_b, out_b, in_p, out_p) ==
    /\ q.first_seen = now
    /\ q.last_seen = now
    /\ q.windows_seen = 1
    /\ q.in_bytes_total = GetOr0(in_b, q.ip)
    /\ q.out_bytes_total = GetOr0(out_b, q.ip)
    /\ q.in_packets_total = GetOr0(in_p, q.ip)
    /\ q.out_packets_total = GetOr0(out_p, q.ip)

(* C25 (SpecWindow): the update of the tracker for a window touches the *)
(* keys of the four maps and nothing else: afterwards the tracked       *)
(* addresses are the former ones and the keys, one entry each; an entry *)
(* of a key is created with first_seen = last_seen = now if absent, and *)
(* has last_seen = now, windows_seen one higher and each counter higher *)
(* by its map's value (0 without the key); every other entry is what it *)
(* was; with four empty maps the tracker is what it was.                *)
C25_UpdateFrame ==
    [][CaptureBegins =>
         LET packets == Last(observed')
             in_b == window_in_bytes_by_ip(packets)
             out_b == window_out_bytes_by_ip(packets)
             in_p == window_in_packets_by_ip(packets)
             out_p == window_out_packets_by_ip(packets)
             keys == DOMAIN in_b \cup DOMAIN out_b \cup DOMAIN in_p \cup DOMAIN out_p
             now == clock'
         IN /\ Tracked(peers') = Tracked(peers) \cup keys
            /\ Len(peers') = Cardinality(Tracked(peers'))
            /\ \A j \in 1..Len(peers') :
                 LET q == peers'[j]
                 IN IF q.ip \notin keys THEN q = PeerOf(peers, q.ip)
                    ELSE IF q.ip \in Tracked(peers)
                    THEN Visited(PeerOf(peers, q.ip), q, now, in_b, out_b, in_p, out_p)
                    ELSE Created(q, now, in_b, out_b, in_p, out_p)
            /\ keys = {} => peers' = peers
    ]_vars

(* after two windows: one peer seen in both, inbound only (no key in   *)
(* the outbound maps), the other created in the first window and not   *)
(* in the second, so left as it was                                    *)
C25_Witness ==
    /\ cycles = 2
    /\ Len(peers) = 2
    /\ \E i, j \in 1..2 :
         /\ peers[i].windows_seen = 2
         /\ peers[i].last_seen = clock
         /\ peers[i].in_bytes_total > 0
         /\ peers[i].out_bytes_total = 0
         /\ peers[j].windows_seen = 1
         /\ peers[j].last_seen = peers[j].first_seen
         /\ peers[j].last_seen < peers[i].last_seen

(* C26 (SpecWindow): over the windows of one process run, a tracked     *)
(* entry stays tracked, for the same address and with the same          *)
(* first_seen; its windows_seen and its four cumulative counters never  *)
(* go down; and its windows_seen is at least 1 and at most the number   *)
(* of windows since the start.                                          *)
C26_EntriesPersist ==
    /\ [](\A i \in 1..Len(peers) :
            peers[i].windows_seen >= 1 /\ peers[i].windows_seen <= cycles)
    /\ [][\A i \in 1..Len(peers) :
            /\ i <= Len(peers')
            /\ peers'[i].ip = peers[i].ip
            /\ peers'[i].first_seen = peers[i].first_seen
            /\ peers'[i].windows_seen >= peers[i].windows_seen
            /\ peers'[i].in_bytes_total >= peers[i].in_bytes_total
            /\ peers'[i].out_bytes_total >= peers[i].out_bytes_total
            /\ peers'[i].in_packets_total >= peers[i].in_packets_total
            /\ peers'[i].out_packets_total >= peers[i].out_packets_total]_vars

(* after two windows: the entry created in the first window is still   *)
(* tracked though the second window did not show its address, next to  *)
(* the entry the second window created                                 *)
C26_Witness ==
    /\ cycles = 2
    /\ Len(peers) = 2
    /\ peers[1].windows_seen = 1
    /\ peers[2].windows_seen = 1
    /\ peers[1].first_seen < peers[2].first_seen
    /\ peers[1].last_seen = peers[1].first_seen
    /\ peers[1].in_bytes_total + peers[1].out_bytes_total > 0

(* traffic in one direction only: no inbound bytes or no inbound       *)
(* packets, or no outbound bytes or no outbound packets                *)
OneDirectional(p) ==
    \/ p.in_bytes_total = 0
    \/ p.in_packets_total = 0
    \/ p.out_bytes_total = 0
    \/ p.out_packets_total = 0

(* C27 (SpecTracker): a tracked peer whose cumulative traffic is        *)
(* one-directional has a score of at most 0.2, whatever its             *)
(* windows_seen, lifetime and volume, and so has every one-directional  *)
(* state with one quantity larger.                                      *)
C27_OneDirectionCapped ==
    \A i \in 1..Len(peers) : \A p \in {peers[i]} \cup Grown(peers[i]) :
        OneDirectional(p) => 5 * _score_peer(p, clock) <= ScoreUnit

(* a peer with every component at its maximum, bytes out but no packet *)
(* out: its score is 0.2 exactly                                       *)
C27_Witness ==
    /\ Len(peers) = 1
    /\ peers[1].windows_seen >= MIN_WINDOWS
    /\ peers[1].last_seen - peers[1].first_seen >= MIN_LIFETIME_SEC
    /\ peers[1].in_bytes_total > 0
    /\ peers[1].in_packets_total >= MIN_PACKETS
    /\ peers[1].out_bytes_total > 0
    /\ peers[1].out_packets_total = 0
    /\ peers[1].in_bytes_total + peers[1].out_bytes_total >= MIN_BYTES
    /\ 5 * _score_peer(peers[1], clock) = ScoreUnit

(* the source addresses of a window that top_peers does not list *)
Omitted(ps, top) == Sources(ps) \ {top[i].ip : i \in 1..Len(top)}

(* C28 (SpecTalkers): top_peers of the window built in a cycle lists    *)
(* source addresses of the cycle's packets, each once, with the bytes   *)
(* and packets that address sent, in non-increasing order of bytes;     *)
(* entries of equal bytes stand in the order in which their addresses   *)
(* first appeared; its length is min(unique_peers, TOP_TALKERS); and no *)
(* source that is left out sent strictly more bytes than one listed.    *)
C28_TopTalkers ==
    observed # <<>> =>
        LET ps == Last(observed)
            top == window.top_peers
        IN /\ Len(top) = Min(window.unique_peers, TOP_TALKERS)
           /\ \A i \in 1..Len(top) :
                /\ top[i].ip \in Sources(ps)
                /\ top[i].bytes = BytesFrom(ps, top[i].ip)
                /\ top[i].packets = PacketsFrom(ps, top[i].ip)
           /\ \A i, j \in 1..Len(top) :
                i < j =>
                    /\ top[i].ip # top[j].ip
                    /\ top[i].bytes >= top[j].bytes
                    /\ top[i].bytes = top[j].bytes =>
                         FirstAt(ps, top[i].ip) < FirstAt(ps, top[j].ip)
           /\ \A ip \in Omitted(ps, top) : \A i \in 1..Len(top) :
                BytesFrom(ps, ip) <= top[i].bytes

(* three senders seen in the order 5.6.7.8, 1.2.3.4, 10.0.0.1: the      *)
(* largest comes first, the earlier of the two equal ones second, the  *)
(* later one is cut                                                    *)
C28_Witness ==
    /\ observed # <<>>
    /\ [i \in 1..Len(Last(observed)) |-> Last(observed)[i].src] = <<RemoteB, RemoteA, LocalIp>>
    /\ window.unique_peers = 3
    /\ window.top_peers = << [ip |-> LocalIp, bytes |-> 2, packets |-> 1],
                             [ip |-> RemoteB, bytes |-> 1, packets |-> 1] >>
    /\ Omitted(Last(observed), window.top_peers) = {RemoteA}

(* the cycles whose window add_window has appended *)
Stored == pc \in {"add_top", "add_nodes", "save", "sleep", "start"}

(* C30 (SpecStore): a cycle whose observation sequence is empty builds  *)
(* a window with total_bytes, total_packets and the four directional    *)
(* counters 0, unique_peers 0, new_peers 0 and no top_peers; add_window *)
(* appends that record to the history, a health report made from it     *)
(* says "idle", and the cycle leaves the peers of NodeTracker as they   *)
(* were.                                                                *)
C30_EmptyWindow ==
    /\ []((observed # <<>> /\ pc # "crashed" /\ Last(observed) = <<>>) =>
            /\ window.total_bytes = 0
            /\ window.total_packets = 0
            /\ window.in_bytes = 0
            /\ window.out_bytes = 0
            /\ window.in_packets = 0
            /\ window.out_packets = 0
            /\ window.unique_peers = 0
            /\ window.new_peers = 0
            /\ window.top_peers = <<>>
            /\ Stored =>
                 /\ Len(appended) = Len(observed)
                 /\ Last(appended) = window
                 /\ Last(metrics_history) = window
                 /\ pc # "add_top" => latest_top_peers = <<>>)
    /\ []((health_pc = "returned" /\ health.status # "cold") =>
            \A k \in 1..Len(appended) :
                (appended[k].ts = health.last_ts /\ observed[k] = <<>>) =>
                    health.status = "idle")
    /\ [][(CaptureBegins /\ Last(observed') = <<>>) => peers' = peers]_vars

(* a window with one peer, then an empty one: the peer is still         *)
(* tracked with its one window, the record is the last of the history   *)
(* and the health report made from it says "idle"                       *)
C30_Witness ==
    /\ Len(observed) = 2
    /\ observed[1] # <<>>
    /\ observed[2] = <<>>
    /\ pc = "sleep"
    /\ Len(peers) = 1
    /\ peers[1].windows_seen = 1
    /\ window.expired_peers = 1
    /\ Last(metrics_history) = window
    /\ health_pc = "returned"
    /\ health.status = "idle"
    /\ health.last_ts = window.ts

(* unique_peers of the window before the k-th appended one, 0 before   *)
(* the first                                                           *)
UniqueBefore(k) == IF k = 1 THEN 0 ELSE appended[k - 1].unique_peers

(* C31 (SpecWindow): for every window record n the loop has produced,   *)
(* unique_peers(n) = unique_peers(n-1) + new_peers(n) -                 *)
(* expired_peers(n), with unique_peers taken as 0 before the first      *)
(* window; and new_peers(n) <= unique_peers(n), expired_peers(n) <=     *)
(* unique_peers(n-1).                                                   *)
C31_ChurnBalance ==
    \A k \in 1..Len(appended) :
        /\ appended[k].unique_peers =
              UniqueBefore(k) + appended[k].new_peers - appended[k].expired_peers
        /\ appended[k].new_peers <= appended[k].unique_peers
        /\ appended[k].expired_peers <= UniqueBefore(k)

(* a window with one peer, then one in which that peer stays and a      *)
(* second appears                                                       *)
C31_Witness ==
    /\ Len(appended) = 2
    /\ appended[1].unique_peers = 1
    /\ appended[2].unique_peers = 2
    /\ appended[2].new_peers = 1
    /\ appended[2].expired_peers = 0

(* the windows begun that add_window has not appended yet: none, or the *)
(* one capture_loop holds                                               *)
Pending == IF Len(appended) < cycles /\ pc # "crashed" THEN <<window>> ELSE <<>>
Produced == appended \o Pending

(* C32 (SpecWindow): the sum over the tracked peers of in_bytes_total   *)
(* equals the sum of in_bytes over all window records built since       *)
(* process start, and likewise out_bytes, in_packets and out_packets;   *)
(* in particular after any number of completed windows.                 *)
C32_TrackerMatchesWindows ==
    /\ SumSeq([i \in 1..Len(peers) |-> peers[i].in_bytes_total])
         = SumSeq([k \in 1..Len(Produced) |-> Produced[k].in_bytes])
    /\ SumSeq([i \in 1..Len(peers) |-> peers[i].out_bytes_total])
         = SumSeq([k \in 1..Len(Produced) |-> Produced[k].out_bytes])
    /\ SumSeq([i \in 1..Len(peers) |-> peers[i].in_packets_total])
         = SumSeq([k \in 1..Len(Produced) |-> Produced[k].in_packets])
    /\ SumSeq([i \in 1..Len(peers) |-> peers[i].out_packets_total])
         = SumSeq([k \in 1..Len(Produced) |-> Produced[k].out_packets])

(* two completed windows on the host 10.0.0.1: two packets of one peer  *)
(* in the first, a packet of that peer and one sent to another in the   *)
(* second                                                               *)
C32_Witness ==
    /\ pc = "sleep"
    /\ cycles = 2
    /\ Len(appended) = 2
    /\ LOCAL_IPS = {LocalIp}
    /\ appended[1].in_bytes = 2
    /\ appended[1].in_packets = 2
    /\ appended[2].in_bytes = 1
    /\ appended[2].out_bytes = 2
    /\ Len(peers) = 2
    /\ peers[1].in_bytes_total = 3
    /\ peers[2].out_bytes_total = 2

(* the clock has not gone back behind a moment at which a tracked peer  *)
(* was seen: what a non-decreasing clock gives at every window          *)
ClockNotBehind == \A i \in 1..Len(peers) : clock' >= peers[i].last_seen

(* C33 (SpecTrackerQuiet): the score of a tracked peer is the same for  *)
(* every now passed to get_candidates; a window in which the peer does  *)
(* not appear leaves its score as it was; and under a clock that does   *)
(* not go back, the score of every tracked peer after a window is at    *)
(* least its score before it.                                           *)
C33_ScoreNeverDecays ==
    /\ [](\A i \in 1..Len(peers) : \A now \in TrackerTimes \cup {MaxTrackerTime + 1} :
            _score_peer(peers[i], now) = _score_peer(peers[i], clock))
    /\ [][\A i \in 1..Len(peers) :
            /\ i <= Len(peers')
            /\ peers'[i].ip = peers[i].ip
            /\ peers'[i].windows_seen = peers[i].windows_seen =>
                 _score_peer(peers'[i], clock') = _score_peer(peers[i], clock)
            /\ ClockNotBehind =>
                 _score_peer(peers'[i], clock') >= _score_peer(peers[i], clock)]_vars

(* a peer seen in two windows and listed with the default min_score,   *)
(* after a later window in which it sent nothing                       *)
C33_Witness ==
    /\ cycles = 3
    /\ Len(peers) = 1
    /\ peers[1].windows_seen = 2
    /\ clock > peers[1].last_seen
    /\ peers[1].last_seen >= peers[1].first_seen
    /\ _score_peer(peers[1], clock) >= DefaultMinScore
    /\ Len(get_candidates(peers, clock, DefaultMinScore, CANDIDATE_LIMIT)) = 1

(* C34 (SpecTracker): every record of the list get_candidates returns   *)
(* has lifetime_sec >= 0, whatever the now values passed to             *)
(* update_for_window were, a clock set back between windows included.   *)
C34_LifetimeNonNegative ==
    LET cs == get_candidates(peers, clock, DefaultMinScore, CANDIDATE_LIMIT)
    IN \A k \in 1..Len(cs) : cs[k].lifetime_sec >= 0

====
